---- MODULE Spec2Model ----
(***************************************************************************)
(* Ticker analysis and ranking pipeline of premarket-scanner.              *)
(*                                                                         *)
(* Each specification runs one state machine of this module; the          *)
(* machines it does not run stay parked:                                   *)
(*   SpecOption   : scanner_core.pick_option_contract on one option chain, *)
(*                  the option columns run_scan derives from the pick,     *)
(*                  bot.pick_option and scanner._find_atm_option;          *)
(*   SpecBias     : the bias classifiers (scanner._bias,                   *)
(*                  bot.analyze_symbol, src/bot.analyze_ticker_daily) on   *)
(*                  one indicator snapshot or one provider answer;         *)
(*   Spec         : scanner_core.run_scan, from safe_download to the view; *)
(*   SpecDownload : safe_download alone, with the provider's answers kept; *)
(*   SpecEarnings : the earnings-date functions, one call each;            *)
(*   SpecPlan     : levels_from_atr and analyze_symbol's fixed bands;      *)
(*   SpecCache    : two calls of the earnings window sharing the cache     *)
(*                  file, SpecCacheOne one call alone;                     *)
(*   SpecPool     : _earnings_scan's semaphore-bounded lookups;            *)
(*   SpecUniverse : UniverseManager.initialize and get.                    *)
(*                                                                         *)
(* Units.  Prices, bids and asks are integers (cents).  A spread percent   *)
(* is the exact rational 200*(ask-bid)/(bid+ask); comparisons are made by  *)
(* cross-multiplication.  The MACD histogram is in tenths, scores are in   *)
(* tenths (score_row's weights 2, 1.5, 1/10, 1.2 become 20, 15, 1, 12).    *)
(* pandas' NaN and Python's None are the two model values NaN and None.    *)
(***************************************************************************)
EXTENDS Integers, Sequences, FiniteSets, TLC

VARIABLES
    \* ---- SpecOption
    opt_pc,      \* "idle" | "picked" | "row" | "bot" | "atm"
    opt_in,      \* the provider's answer and the call's arguments
    pick,        \* what pick_option_contract returned
    opt_row,     \* the option columns of run_scan's row
    \* ---- SpecBias
    bias_pc,     \* "idle" | "done"
    bias_in,     \* the bar series' length and the indicators' last values
    card,        \* the analysis returned
    \* ---- Spec (run_scan)
    pc,          \* "download" | "loop" | "finish" | "done" | "raised"
    attempts,    \* safe_download's attempts so far, in order
    data,        \* ticker -> number of complete bars (the dict safe_download returns)
    used,        \* (period, interval) safe_download returned, or None
    todo,        \* the tickers data.items() has still to yield
    outcome,     \* ticker -> how its loop body ended
    rows,        \* run_scan's rows
    top_k,       \* run_scan's argument
    result,      \* run_scan's return value
    \* ---- SpecEarnings
    earn_pc,     \* "idle" | "done"
    earn_in,     \* the provider's answers and the call's arguments
    earn_out,    \* what the earnings function returned
    \* ---- SpecPlan
    plan_pc,     \* "idle" | "done"
    plan_in,     \* last price, ATR% and bias
    plan_out,    \* the trade plan built
    \* ---- SpecCache
    clock,       \* time.time(), in hours
    inodes,      \* the files' contents
    cache_path,  \* the file EARNINGS_CACHE names, 0 if none
    tmp_path,    \* the file EARNINGS_CACHE + ".tmp" names, 0 if none
    proc,        \* each call: its kind, position, local cache dict and batch
    \* ---- SpecPool
    scan_pc,     \* "gather" | "returned"
    scan_in,     \* the provider's answer for each ticker, and max_concurrency
    sem,         \* the semaphore's value
    waiters,     \* the tasks waiting for the semaphore, in order
    task,        \* ticker -> "created" | "waiting" | "lookup" | "done"
    results,     \* _earnings_scan's results list
    \* ---- SpecUniverse
    univ_pc,     \* "new" | "initialized" | "raised" | "got"
    univ_in,     \* the symbols file, the imports and the environment variables
    symbols,     \* UniverseManager.symbols
    returned     \* what get(limit) returned

optVars  == <<opt_pc, opt_in, pick, opt_row>>
biasVars == <<bias_pc, bias_in, card>>
scanVars == <<pc, attempts, data, used, todo, outcome, rows, top_k, result>>
earnVars == <<earn_pc, earn_in, earn_out>>
planVars == <<plan_pc, plan_in, plan_out>>
cacheVars == <<clock, inodes, cache_path, tmp_path, proc>>
poolVars == <<scan_pc, scan_in, sem, waiters, task, results>>
univVars == <<univ_pc, univ_in, symbols, returned>>
vars     == <<optVars, biasVars, scanVars, earnVars, planVars, cacheVars, poolVars, univVars>>

(***************************************************************************)
(* Python values.  A float is Num(v), NaN or None: three records of        *)
(* different shapes, so that arithmetic on a NaN or a None is an error of  *)
(* the model rather than a number.  An optional expiration is a sequence   *)
(* of at most one element.  A dict is a record; Python's None, where a     *)
(* dict is expected, is NonePick.                                          *)
(***************************************************************************)
Num(x) == [k |-> "num", v |-> x]
NaN    == [k |-> "nan"]
None   == [k |-> "none"]

IsNum(x)  == x.k = "num"
IsNaN(x)  == x.k = "nan"
IsNone(x) == x.k = "none"

\* Python's a > b, a >= b on floats: False as soon as one operand is NaN
Gt(a, b) == IsNum(a) /\ IsNum(b) /\ a.v > b.v
Ge(a, b) == IsNum(a) /\ IsNum(b) /\ a.v >= b.v
Lt(a, b) == Gt(b, a)
Le(a, b) == Ge(b, a)

Abs(x) == IF x < 0 THEN -x ELSE x

\* round() of the quotient a/b of two non-negative integers, b > 0
RoundDiv(a, b) == (2 * a + b) \div (2 * b)

(***************************************************************************)
(* scanner_core.py: constants                                              *)
(***************************************************************************)
MAX_SPREAD_PCT   == 8
OPT_VOL_MIN      == 300
OPT_OI_MIN       == 500
RELAX_SPREAD_PCT == 12
RELAX_VOL_MIN    == 100
RELAX_OI_MIN     == 100

TARGET_EXP_MIN_DAYS == 5
TARGET_EXP_MAX_DAYS == 14

(***************************************************************************)
(* nearest_target_expiration.  An expiration string is modelled by its     *)
(* number of days from today, (to_date(e) - today).days; sorted((d, e))    *)
(* is then the order of d.  The result is <<d>>, or <<>> for None.         *)
(***************************************************************************)
SeqMin_First(s) == s[1]

\* sorted(c)[0]
SeqMin(s) == CHOOSE x \in {s[i] : i \in DOMAIN s} : \A j \in DOMAIN s : x <= s[j]

IsFuture(d) == d >= 0

InBand(d) == TARGET_EXP_MIN_DAYS <= d /\ d <= TARGET_EXP_MAX_DAYS

nearest_target_expiration(exps, raises) ==
    IF raises THEN <<>>
    ELSE IF exps = <<>> THEN <<>>
    ELSE LET c    == SelectSeq(exps, IsFuture)
             c_in == SelectSeq(c, InBand)
         IN  IF c_in # <<>> THEN <<SeqMin(c_in)>>
             ELSE IF c # <<>> THEN <<SeqMin(c)>> ELSE <<exps[1]>>

(***************************************************************************)
(* pick_option_contract.  A chain table is a sequence of rows              *)
(* [strike, bid, ask, volume, openInterest]: strike an integer, the others *)
(* floats.  A row's contractSymbol is its position in the table.           *)
(***************************************************************************)
WithId(tbl) == [i \in DOMAIN tbl |->
                  [contractSymbol |-> i, strike |-> tbl[i].strike,
                   bid |-> tbl[i].bid, ask |-> tbl[i].ask,
                   volume |-> tbl[i].volume, openInterest |-> tbl[i].openInterest]]

\* t["mid"] > 0 and t["ask"] >= t["bid"], with mid = (bid + ask) / 2
ValidQuote_MidOnly(r) == /\ IsNum(r.bid) /\ IsNum(r.ask)
                         /\ r.bid.v + r.ask.v >= 0

ValidQuote(r) == /\ IsNum(r.bid) /\ IsNum(r.ask)
                 /\ r.bid.v + r.ask.v > 0
                 /\ Ge(r.ask, r.bid)

Dist(r, spot) == Abs(r.strike - spot)

\* spread_pct <= pct, for a row with mid > 0:
\* spread_pct = (ask - bid) / mid * 100 = 200 (ask - bid) / (bid + ask)
SpreadLE(r, pct) == 200 * (r.ask.v - r.bid.v) <= pct * (r.bid.v + r.ask.v)

\* spread_pct of a is below that of b, both with mid > 0
SpreadLT(a, b) ==
    (a.ask.v - a.bid.v) * (b.bid.v + b.ask.v) < (b.ask.v - b.bid.v) * (a.bid.v + a.ask.v)

IsStrict(r) == /\ Ge(r.volume, Num(OPT_VOL_MIN))
               /\ Ge(r.openInterest, Num(OPT_OI_MIN))
               /\ SpreadLE(r, MAX_SPREAD_PCT)

IsRelaxed(r) == /\ Ge(r.volume, Num(RELAX_VOL_MIN))
                /\ Ge(r.openInterest, Num(RELAX_OI_MIN))
                /\ SpreadLE(r, RELAX_SPREAD_PCT)

TierRows_RelaxedFirst(t) ==
    LET relaxed == SelectSeq(t, IsRelaxed)
    IN  IF relaxed # <<>> THEN relaxed ELSE SelectSeq(t, IsStrict)

\* use = strict if not strict.empty else the relaxed rows
TierRows(t) ==
    LET strict == SelectSeq(t, IsStrict)
    IN  IF strict # <<>> THEN strict ELSE SelectSeq(t, IsRelaxed)

SortsBefore_SpreadFirst(a, b, spot) ==
    \/ SpreadLT(a, b)
    \/ ~SpreadLT(b, a) /\ Dist(a, spot) < Dist(b, spot)

\* the order of sort_values(["dist", "spread_pct"])
SortsBefore(a, b, spot) ==
    \/ Dist(a, spot) < Dist(b, spot)
    \/ Dist(a, spot) = Dist(b, spot) /\ SpreadLT(a, b)

\* use.sort_values([...]).iloc[0]; rows that tie on both keys keep the table's order
FirstSorted(use, spot) ==
    use[CHOOSE i \in DOMAIN use :
          \A j \in DOMAIN use \ {i} :
              \/ SortsBefore(use[i], use[j], spot)
              \/ ~SortsBefore(use[j], use[i], spot) /\ i < j]

\* the dict returned for the selected row
ContractPick(exp, row) ==
    [expiration   |-> exp,
     contract     |-> row.contractSymbol,
     strike       |-> row.strike,
     bid          |-> row.bid.v,
     ask          |-> row.ask.v,
     mid          |-> RoundDiv(row.bid.v + row.ask.v, 2),
     spread_pct   |-> RoundDiv(2000 * (row.ask.v - row.bid.v), row.bid.v + row.ask.v),
     volume       |-> row.volume.v,
     openInterest |-> row.openInterest.v]

NonePick == [none |-> TRUE]

NotePick(exp) == [expiration |-> exp, note |-> "No liquid ATM (strict or relaxed)"]

NoLiquidPick_AnyRow(exp, t, spot) ==
    IF t = <<>> THEN NotePick(exp) ELSE ContractPick(exp, FirstSorted(t, spot))

\* if use.empty: return {"expiration": exp, "note": ...}
NoLiquidPick(exp, t, spot) == NotePick(exp)

\* in: [exps, exps_raises, chain_raises, calls, puts, bias, spot]
pick_option_contract(in) ==
    LET e == nearest_target_expiration(in.exps, in.exps_raises)
    IN  IF e = <<>> THEN NonePick
        ELSE IF in.chain_raises THEN NonePick
        ELSE LET exp == e[1]
                 tbl == IF in.bias = "PUT" THEN in.puts ELSE in.calls
             IN  IF tbl = <<>> THEN NonePick
                 ELSE LET t   == SelectSeq(WithId(tbl), ValidQuote)
                          use == TierRows(t)
                      IN  IF use = <<>> THEN NoLiquidPick(exp, t, in.spot)
                          ELSE ContractPick(exp, FirstSorted(use, in.spot))

IsNonePick(p)     == "none" \in DOMAIN p
IsNotePick(p)     == "note" \in DOMAIN p
IsContractPick(p) == "contract" \in DOMAIN p

(***************************************************************************)
(* bot.pick_option.  Its result is {"note": ...} or the dict of the row    *)
(* whose strike is nearest the spot.  The tables here carry no lastPrice   *)
(* column, so row.get("lastPrice", np.nan) is NaN.                         *)
(***************************************************************************)
\* the key of sorted(expiries, ...): abs(max(dte(e), 0) - 10)
ExpiryKey(d) == Abs((IF d > 0 THEN d ELSE 0) - 10)

\* sorted(...)[0]; Python's sort is stable
BotExpiry(exps) ==
    exps[CHOOSE i \in DOMAIN exps :
           \A j \in DOMAIN exps \ {i} :
               \/ ExpiryKey(exps[i]) < ExpiryKey(exps[j])
               \/ ExpiryKey(exps[i]) = ExpiryKey(exps[j]) /\ i < j]

\* nearest_strike: diffs.sort_values().index[0]; the default sort is not stable,
\* so any row at the least distance may come first
NearestStrikeIds(tbl, spot) ==
    { i \in DOMAIN tbl : \A j \in DOMAIN tbl : Dist(tbl[i], spot) <= Dist(tbl[j], spot) }

BotNote(text) == [note |-> text]

\* "bid and ask": both non-zero (a NaN is true)
BothTruthy(bid, ask) == ~(IsNum(bid) /\ bid.v = 0) /\ ~(IsNum(ask) /\ ask.v = 0)

\* mid = (bid + ask) / 2 if (bid and ask) else (last or None), last being NaN
BotMid(bid, ask) ==
    IF BothTruthy(bid, ask) /\ IsNum(bid) /\ IsNum(ask)
    THEN Num(RoundDiv(bid.v + ask.v, 2))
    ELSE NaN

\* spread_pct, in tenths of a percent, or None
BotSpread(bid, ask) ==
    IF BothTruthy(bid, ask) /\ IsNum(bid) /\ IsNum(ask) /\ bid.v + ask.v > 0
    THEN Num(RoundDiv(2000 * (ask.v - bid.v), bid.v + ask.v))
    ELSE None

\* lines 128-144; int() of a NaN volume or open interest raises
BotRowPick(expiry, row) ==
    IF ~IsNum(row.volume) \/ ~IsNum(row.openInterest)
    THEN BotNote("Option lookup error")
    ELSE [expiry |-> expiry, contract |-> row.contractSymbol, strike |-> row.strike,
          mid |-> BotMid(row.bid, row.ask), spread_pct |-> BotSpread(row.bid, row.ask),
          vol |-> row.volume.v, oi |-> row.openInterest.v]

\* the set of dicts pick_option may return for in
pick_option(in) ==
    IF in.exps_raises THEN {BotNote("Option lookup error")}
    ELSE IF in.exps = <<>> THEN {BotNote("No options listed.")}
    ELSE IF in.chain_raises THEN {BotNote("Option lookup error")}
    ELSE LET tbl == IF in.bias = "CALL" THEN in.calls ELSE in.puts
         IN  IF tbl = <<>> THEN {BotNote("No chain")}
             ELSE { BotRowPick(BotExpiry(in.exps), WithId(tbl)[i]) :
                        i \in NearestStrikeIds(tbl, in.spot) }

(***************************************************************************)
(* scanner._nearest_expiry with target_days = 14: the first listed date    *)
(* whose distance in days from today + 14 is the smallest, a date before   *)
(* today included.  <<>> is None.                                          *)
(***************************************************************************)
TARGET_DAYS == 14

ExpiryDiff(d) == Abs(d - TARGET_DAYS)

_nearest_expiry(exps) ==
    IF exps = <<>> THEN <<>>
    ELSE LET i == CHOOSE k \in DOMAIN exps :
                    /\ \A j \in DOMAIN exps : ExpiryDiff(exps[k]) <= ExpiryDiff(exps[j])
                    /\ \A j \in 1..(k - 1) : ExpiryDiff(exps[j]) > ExpiryDiff(exps[k])
         IN  <<exps[i]>>

\* mid and spread of scanner._find_atm_option: None unless bid and ask are
\* numbers and ask > 0; the spread is relative to the ask, in tenths of a percent
AtmMid(bid, ask) ==
    IF IsNum(bid) /\ IsNum(ask) /\ ask.v > 0
    THEN Num(RoundDiv(bid.v + ask.v, 2)) ELSE None

AtmSpread(bid, ask) ==
    IF IsNum(bid) /\ IsNum(ask) /\ ask.v > 0
    THEN Num(RoundDiv(1000 * (ask.v - bid.v), ask.v)) ELSE None

\* the returned dict; int() of a NaN volume or open interest raises, and the
\* function's except returns None
AtmRowPick(expiry, row, side) ==
    IF ~IsNum(row.volume) \/ ~IsNum(row.openInterest) THEN NonePick
    ELSE [code |-> row.contractSymbol, expiry |-> expiry, strike |-> row.strike,
          mid |-> AtmMid(row.bid, row.ask), spread_pct |-> AtmSpread(row.bid, row.ask),
          oi |-> row.openInterest.v, vol |-> row.volume.v, side |-> side]

\* the set of values scanner._find_atm_option may return for in (the sort by
\* distance is not stable: any row at the least distance may come first)
_find_atm_option(in) ==
    IF in.exps_raises THEN {NonePick}
    ELSE IF in.exps = <<>> THEN {NonePick}
    ELSE IF in.chain_raises THEN {NonePick}
    ELSE LET tbl == IF in.bias = "CALL" THEN in.calls ELSE in.puts
         IN  IF tbl = <<>> THEN {NonePick}
             ELSE { AtmRowPick(_nearest_expiry(in.exps)[1], WithId(tbl)[i], in.bias) :
                        i \in NearestStrikeIds(tbl, in.spot) }

(***************************************************************************)
(* run_scan, lines 226-234: the option columns of the row.  The columns of *)
(* a row without a contract are the empty string, here Blank.              *)
(***************************************************************************)
Blank == [k |-> "blank"]

OptionColumns(p) ==
    LET blank == [ok   |-> FALSE, exp |-> <<>>, note |-> "no pick",
                  sym  |-> Blank, strike |-> Blank, mid |-> Blank,
                  sp   |-> Blank, ov |-> Blank, oi |-> Blank]
    IN  IF IsNonePick(p) THEN blank
        ELSE IF "note" \in DOMAIN p
             THEN [blank EXCEPT !.exp = <<p.expiration>>, !.note = p.note]
        ELSE [blank EXCEPT !.exp = <<p.expiration>>,
                           !.sym = Num(p.contract), !.strike = Num(p.strike),
                           !.mid = Num(p.mid), !.sp = Num(p.spread_pct),
                           !.ov = Num(p.volume), !.oi = Num(p.openInterest),
                           !.ok = TRUE]

(***************************************************************************)
(* Inputs of SpecOption: what the provider answers for one symbol.         *)
(***************************************************************************)
MaxRows == 2

Spot == 100

\* two strikes as far from the spot as each other, and one farther
Strikes == {95, 105}
FarStrike == Spot + 10

\* (bid, ask): spreads of 4, 8, 12 and 20 percent around a mid of 100
GoodQuotes == { <<Num(98), Num(102)>>, <<Num(96), Num(104)>>,
                <<Num(94), Num(106)>>, <<Num(90), Num(110)>> }

\* no quote, a missing bid, a crossed quote, a zero bid
BadQuotes == { <<Num(0), Num(0)>>, <<NaN, Num(104)>>, <<Num(104), Num(96)>>,
               <<Num(0), Num(4)>> }

\* (volume, openInterest): at the strict thresholds, at the relaxed thresholds
Liquidities == { <<Num(300), Num(500)>>, <<Num(100), Num(100)>> }

\* (volume, openInterest): under the relaxed threshold of volume, of open interest
Illiquid == { <<Num(99), Num(500)>>, <<Num(300), Num(99)>> }

Row(s, q, l) == [strike |-> s, bid |-> q[1], ask |-> q[2],
                 volume |-> l[1], openInterest |-> l[2]]

\* every quote and liquidity at the near strikes; the tightest, most liquid row
\* at the far strike; and at the spot the rows no tier may take
RowSet == { Row(s, q, l) : s \in Strikes, q \in GoodQuotes, l \in Liquidities }
          \cup { Row(FarStrike, <<Num(98), Num(102)>>, <<Num(300), Num(500)>>) }
          \cup { Row(Spot, <<Num(98), Num(102)>>, l) : l \in Illiquid }
          \cup { Row(Spot, q, <<Num(300), Num(500)>>) : q \in BadQuotes }

SeqsUpTo(S, n) == UNION { [1..m -> S] : m \in 0..n }

Chains == SeqsUpTo(RowSet, MaxRows)

\* the other side of the chain: one liquid at-the-money row
OtherSide == << Row(Spot, <<Num(98), Num(102)>>, <<Num(300), Num(500)>>) >>

MaxExps == 2

\* days from today: past, today, before the band, its two ends, inside, after
\* it, and farther from the 14-day target than the past date is
ExpDays == {-2, 0, 3, 5, 7, 14, 20, 35}

ExpLists == SeqsUpTo(ExpDays, MaxExps)

OptIn(exps, er, cr, calls, puts, bias) ==
    [exps |-> exps, exps_raises |-> er, chain_raises |-> cr,
     calls |-> calls, puts |-> puts, bias |-> bias, spot |-> Spot]

OptInputs ==
    \* every chain, under one listed expiration inside the band
       { OptIn(<<7>>, FALSE, FALSE, c, OtherSide, "CALL") : c \in Chains }
    \cup { OptIn(<<7>>, FALSE, FALSE, OtherSide, c, "PUT") : c \in Chains }
    \* every list of expirations, over one chain
    \cup { OptIn(x, FALSE, FALSE, OtherSide, OtherSide, "CALL") : x \in ExpLists }
    \* the provider raises
    \cup { OptIn(<<7>>, TRUE, FALSE, OtherSide, OtherSide, "CALL"),
           OptIn(<<7>>, FALSE, TRUE, OtherSide, OtherSide, "CALL") }

OptInit == /\ opt_pc = "idle"
           /\ opt_in \in OptInputs
           /\ pick = NonePick
           /\ opt_row = OptionColumns(NonePick)

\* pick = pick_option_contract(tkr, bias, price)
PickOption == /\ opt_pc = "idle"
              /\ pick' = pick_option_contract(opt_in)
              /\ opt_pc' = "picked"
              /\ UNCHANGED <<opt_in, opt_row>>

\* bot.pick_option(symbol, spot, bias) on the same provider answers
PickOptionBot == /\ opt_pc = "idle"
                 /\ pick' \in pick_option(opt_in)
                 /\ opt_pc' = "bot"
                 /\ UNCHANGED <<opt_in, opt_row>>

\* scanner._find_atm_option(symbol, last, bias) on the same provider answers
FindAtmOption == /\ opt_pc = "idle"
                 /\ pick' \in _find_atm_option(opt_in)
                 /\ opt_pc' = "atm"
                 /\ UNCHANGED <<opt_in, opt_row>>

\* run_scan's lines 227-234 on that pick
BuildOptionColumns == /\ opt_pc = "picked"
                      /\ opt_row' = OptionColumns(pick)
                      /\ opt_pc' = "row"
                      /\ UNCHANGED <<opt_in, pick>>

(***************************************************************************)
(* Indicators.  A bar series hist is [n, close, e20, e50, rsi, macd,       *)
(* volume, vol20]: its length, its last close and last volume, and the     *)
(* last values the ta indicators and the 20-bar rolling mean have once     *)
(* their window is full.  With fillna=False an indicator's last value is   *)
(* NaN as long as the series is shorter than its window.                   *)
(***************************************************************************)
EMA20_WINDOW == 20
EMA50_WINDOW == 50
RSI_WINDOW   == 14
MACD_SLOW    == 26
MACD_FAST    == 12
MACD_SIGN    == 9
VOL_WINDOW   == 20

\* the signal line needs MACD_SIGN values of the MACD line, which starts at bar MACD_SLOW
MacdBars == MACD_SLOW + MACD_SIGN - 1

\* float(Indicator(close, window, fillna=False)....iloc[-1])
LastValue(n, window, v) == IF n < window THEN NaN ELSE Num(v)

\* scanner._compute_indicators
_compute_indicators(hist) ==
    IF hist.n = 0
    THEN [ema20 |-> None, ema50 |-> None, rsi |-> None, macd_diff |-> None]
    ELSE [ema20     |-> LastValue(hist.n, EMA20_WINDOW, hist.e20),
          ema50     |-> LastValue(hist.n, EMA50_WINDOW, hist.e50),
          rsi       |-> LastValue(hist.n, RSI_WINDOW, hist.rsi),
          macd_diff |-> LastValue(hist.n, MacdBars, hist.macd)]

\* scanner._volume_vs_avg20, in hundredths: iloc[-1] raises on an empty series
\* (caught: None); "if v20" is true of a NaN and false of 0.0
_volume_vs_avg20(hist) ==
    IF hist.n = 0 THEN None
    ELSE LET v20 == LastValue(hist.n, VOL_WINDOW, hist.vol20)
         IN  IF IsNaN(v20) THEN NaN
             ELSE IF v20.v = 0 THEN None
             ELSE Num(RoundDiv(100 * hist.volume, v20.v))

\* Python's truth value of an Optional[float]: None and 0.0 are false, NaN is true
Truthy(x) == ~IsNone(x) /\ ~(IsNum(x) /\ x.v = 0)

\* scanner._bias
_bias(last, ema20, ema50, macd_diff) ==
    LET trend == IF Truthy(last) /\ Truthy(ema20) /\ Truthy(ema50)
                 THEN (IF Gt(last, ema20) /\ Gt(ema20, ema50) THEN 1 ELSE 0)
                      - (IF Lt(last, ema20) /\ Lt(ema20, ema50) THEN 1 ELSE 0)
                 ELSE 0
        mom   == IF IsNone(macd_diff) THEN 0
                 ELSE IF Gt(macd_diff, Num(0)) THEN 1
                 ELSE IF Lt(macd_diff, Num(0)) THEN -1
                 ELSE 0
        score == trend + mom
    IN  IF score >= 1 THEN "CALL"
        ELSE IF score <= -1 THEN "PUT"
        ELSE "NEUTRAL"

\* scanner.analyze_one_ticker: the fields of the TickerCard that the indicators
\* and the classifier decide
analyze_one_ticker(hist) ==
    IF hist.n = 0 THEN [fn |-> "analyze_one_ticker", ok |-> FALSE]
    ELSE LET last == Num(hist.close)
             ind  == _compute_indicators(hist)
         IN  [fn |-> "analyze_one_ticker", ok |-> TRUE,
              last |-> last,
              ema20 |-> ind.ema20, ema50 |-> ind.ema50,
              rsi14 |-> ind.rsi, macd_diff |-> ind.macd_diff,
              vol_vs_avg20 |-> _volume_vs_avg20(hist),
              bias |-> _bias(last, ind.ema20, ind.ema50, ind.macd_diff)]

\* bot.analyze_symbol, line 225
MIN_BARS == 60

\* bot.analyze_symbol, lines 240-248
SymbolBias(last, ema20, ema50, macd_diff, rsi) ==
    LET uptrend   == last > ema20 /\ ema20 > ema50 /\ macd_diff > 0
        downtrend == last < ema20 /\ ema20 < ema50 /\ macd_diff < 0
    IN  IF uptrend THEN "CALL"
        ELSE IF downtrend THEN "PUT"
        ELSE IF macd_diff > 0 /\ rsi >= 50 THEN "CALL" ELSE "PUT"

\* bot.analyze_symbol, lines 250-259: the bands, in thousandths of the price unit
\* (pct = 0.002, target and stop at 0.003)
SymbolPlan(last, bias) ==
    IF bias = "CALL"
    THEN [buy_low |-> last * 998, buy_high |-> last * 999,
          target |-> last * 1003, stop |-> last * 997]
    ELSE [buy_low |-> last * 1001, buy_high |-> last * 1002,
          target |-> last * 997, stop |-> last * 1003]

\* bot.analyze_symbol: no bars, fewer than 60 closes, or the analysis
analyze_symbol(hist) ==
    IF hist.n = 0 THEN [fn |-> "analyze_symbol", ok |-> FALSE, error |-> "No data."]
    ELSE IF hist.n < MIN_BARS
    THEN [fn |-> "analyze_symbol", ok |-> FALSE,
          error |-> "Not enough recent data for indicators."]
    ELSE LET bias == SymbolBias(hist.close, hist.e20, hist.e50, hist.macd, hist.rsi)
         IN  [fn |-> "analyze_symbol", ok |-> TRUE,
              price |-> hist.close, bias |-> bias,
              plan |-> SymbolPlan(hist.close, bias)]

\* src/bot.analyze_ticker_daily, lines 108-116
DailyBias(last, e20, e50, macd_val, rsi) ==
    IF last > e20 /\ e20 > e50 /\ macd_val > 0 /\ rsi >= 50 THEN "CALL"
    ELSE IF last < e20 /\ e20 < e50 /\ macd_val < 0 /\ rsi <= 50 THEN "PUT"
    ELSE "NEUTRAL"

\* src/bot.analyze_ticker_daily: (None, error) under 60 bars, else the embed's bias
analyze_ticker_daily(hist) ==
    IF hist.n < MIN_BARS
    THEN [fn |-> "analyze_ticker_daily", ok |-> FALSE, error |-> "insufficient data"]
    ELSE [fn |-> "analyze_ticker_daily", ok |-> TRUE,
          bias |-> DailyBias(hist.close, hist.e20, hist.e50, hist.macd, hist.rsi)]

(***************************************************************************)
(* bot.analyze_symbol as a whole call, lines 188-281.  The provider's      *)
(* outcome is call: dl is what yf.download did ("raises", "empty" for None *)
(* or no rows, "frame"), found is where the Close column was found         *)
(* ("direct" by _find_column, "fallback" by the xs of lines 205-213, "no"),*)
(* n the number of non-NaN closes, ind_raises whether an indicator raised, *)
(* option what pick_option returned (it catches its own exceptions), and   *)
(* the series' last values.  msg is str(e) of the exception raised.        *)
(***************************************************************************)
Failure(reason) == [fn |-> "analyze_symbol", ok |-> FALSE, error |-> reason]

\* the exception leaves analyze_symbol
OnException_Propagates(msg) == [fn |-> "analyze_symbol", raised |-> msg]

\* except Exception as e: return {"ok": False, "error": str(e)}
OnException(msg) == Failure(msg)

analyze_symbol_call(call) ==
    IF call.dl = "raises" THEN OnException(call.msg)
    ELSE IF call.dl = "empty" THEN Failure("No data.")
    ELSE IF call.found = "no" THEN Failure("'Close' not found. Columns seen: ...")
    ELSE IF call.n < MIN_BARS THEN Failure("Not enough recent data for indicators.")
    ELSE IF call.ind_raises THEN OnException(call.msg)
    ELSE LET bias == SymbolBias(call.close, call.e20, call.e50, call.macd, call.rsi)
         IN  [fn |-> "analyze_symbol", ok |-> TRUE,
              price |-> call.close, bias |-> bias,
              plan |-> SymbolPlan(call.close, bias),
              option |-> call.option]

(***************************************************************************)
(* Inputs of SpecBias: a bar series, the arguments of one direct call of   *)
(* _bias, or the provider's outcome for one call of analyze_symbol.        *)
(***************************************************************************)
MaxBars == 60

Closes   == {90, 100, 110}
Ema20s   == {95, 100, 105}
Ema50s   == {100}
MacdVals == {-1, 0, 1}
RsiVals  == {35, 40, 50, 60, 65}
Volumes  == { <<200, 100>>, <<0, 0>> }

Hists == [n : 0..MaxBars, close : Closes, e20 : Ema20s, e50 : Ema50s,
          rsi : RsiVals, macd : MacdVals]

Optional(S) == {None, NaN} \cup { Num(x) : x \in S }

DirectCalls == [last : Optional(Closes), ema20 : Optional(Ema20s),
                ema50 : Optional(Ema50s), macd_diff : Optional(MacdVals)]

ExceptionMessages == {"HTTPError: 429", "timed out"}

OptionResults == { BotNote("Option lookup error: timed out"),
                   [expiry |-> 7, contract |-> 1, strike |-> Num(100), mid |-> Num(150),
                    spread_pct |-> Num(40), vol |-> 300, oi |-> 500] }

ProviderCalls ==
    [src : {"provider"}, dl : {"raises", "empty", "frame"}, found : {"direct", "fallback", "no"},
     n : {0, 1, MIN_BARS - 1, MIN_BARS}, ind_raises : BOOLEAN, msg : ExceptionMessages,
     option : OptionResults,
     close : Closes, e20 : Ema20s, e50 : Ema50s, rsi : {40, 60}, macd : {-1, 1},
     volume : {200}, vol20 : {100}]

BiasInit == /\ bias_pc = "idle"
            /\ \/ \E h \in Hists, v \in Volumes :
                     bias_in = [src |-> "hist", n |-> h.n, close |-> h.close,
                                e20 |-> h.e20, e50 |-> h.e50, rsi |-> h.rsi,
                                macd |-> h.macd, volume |-> v[1], vol20 |-> v[2]]
               \/ \E d \in DirectCalls :
                     bias_in = [src |-> "direct", last |-> d.last, ema20 |-> d.ema20,
                                ema50 |-> d.ema50, macd_diff |-> d.macd_diff]
               \/ bias_in \in ProviderCalls
            /\ card = <<>>

AnalyzeOneTicker == /\ bias_pc = "idle" /\ bias_in.src = "hist"
                    /\ card' = analyze_one_ticker(bias_in)
                    /\ bias_pc' = "done"
                    /\ UNCHANGED bias_in

AnalyzeSymbol == /\ bias_pc = "idle" /\ bias_in.src = "hist"
                 /\ card' = analyze_symbol(bias_in)
                 /\ bias_pc' = "done"
                 /\ UNCHANGED bias_in

AnalyzeTickerDaily == /\ bias_pc = "idle" /\ bias_in.src = "hist"
                      /\ card' = analyze_ticker_daily(bias_in)
                      /\ bias_pc' = "done"
                      /\ UNCHANGED bias_in

\* analyze_symbol on one provider outcome
AnalyzeSymbolCall == /\ bias_pc = "idle" /\ bias_in.src = "provider"
                     /\ card' = analyze_symbol_call(bias_in)
                     /\ bias_pc' = "done"
                     /\ UNCHANGED bias_in

\* _bias called on its own
ClassifyDirect == /\ bias_pc = "idle" /\ bias_in.src = "direct"
                  /\ card' = [fn |-> "_bias", ok |-> TRUE,
                              bias |-> _bias(bias_in.last, bias_in.ema20,
                                             bias_in.ema50, bias_in.macd_diff)]
                  /\ bias_pc' = "done"
                  /\ UNCHANGED bias_in

(***************************************************************************)
(* safe_download.  The provider's answer to one dl_prices call is          *)
(* [shape, frames]: a flat frame (single-level columns), a frame with      *)
(* MultiIndex columns holding one sub-frame per listed ticker, or no       *)
(* DataFrame.  A sub-frame is [cols, bars]: whether Open, High, Low,       *)
(* Close and Volume are all among its columns, and how many of its rows    *)
(* have no NaN.  A dict of frames is a function from tickers to bars.      *)
(***************************************************************************)
NumSymbols == 2

\* the head of UNIVERSE, and sorted()'s order of these names
UniverseHead == <<"SPY", "QQQ", "NVDA", "TSLA", "AAPL">>
TickerRank   == [t \in {"AAPL", "NVDA", "QQQ", "SPY", "TSLA"} |->
                   CASE t = "AAPL" -> 1 [] t = "NVDA" -> 2 [] t = "QQQ" -> 3
                     [] t = "SPY" -> 4 [] t = "TSLA" -> 5]

UNIVERSE == SubSeq(UniverseHead, 1, NumSymbols)

Tickers == { UNIVERSE[i] : i \in DOMAIN UNIVERSE }

RECURSIVE Sorted(_)
Sorted(S) ==
    IF S = {} THEN <<>>
    ELSE LET m == CHOOSE x \in S : \A y \in S : TickerRank[x] <= TickerRank[y]
         IN  <<m>> \o Sorted(S \ {m})

\* the (period, interval) pairs of safe_download, in its order
Periods == << [period |-> "5d",  interval |-> "5m"],
              [period |-> "15d", interval |-> "15m"],
              [period |-> "60d", interval |-> "1d"] >>

EmptyDict == [t \in {} |-> 0]

normalize(raw, tickers) ==
    IF raw.shape = "flat"
    THEN IF raw.frames[1].cols
         THEN [t \in {tickers[1]} |-> raw.frames[1].bars]
         ELSE EmptyDict
    ELSE IF raw.shape = "multi"
    THEN [t \in { u \in DOMAIN raw.frames : raw.frames[u].cols } |-> raw.frames[t].bars]
    ELSE EmptyDict

NonEmptyFrames_KeepAll(d) == d

\* {k: v for k, v in normalize(raw, tickers).items() if not v.dropna().empty}
NonEmptyFrames(d) == [t \in { u \in DOMAIN d : d[u] > 0 } |-> d[t]]

AttemptData(raw, tickers) == NonEmptyFrames(normalize(raw, tickers))

\* the loop ends after the last pair of the list
LastAttempt == Len(Periods)

\* whether safe_download goes on to the next pair after attempt number i gave got
TriesNext_Always(got, i) == i < LastAttempt

TriesNext(got, i) == DOMAIN got = {} /\ i < LastAttempt

(***************************************************************************)
(* run_scan's loop body.  The last row of the symbol's frame, after        *)
(* add_indicators(df).dropna(), is [Close, EMA20, EMA50, MACD_H, RSI,      *)
(* Volume, VOL20, ATRp]: prices in cents, ATRp in percent.                 *)
(***************************************************************************)
\* add_indicators(df).dropna() is empty unless the longest window, EMA50's, is full
IndicatorRows(bars) == IF bars < EMA50_WINDOW THEN 0 ELSE bars - EMA50_WINDOW + 1

\* MIN_PRICE = 5.0, in cents; MIN_AVG_DAILY_VOL = 2e6, in thousands
MIN_PRICE         == 500
MIN_AVG_DAILY_VOL == 2000

\* daily_liquidity_ok: d is the 60d daily frame, [empty, px, avgv]
daily_liquidity_ok(d) ==
    IF d.empty THEN FALSE
    ELSE d.px >= MIN_PRICE /\ d.avgv >= MIN_AVG_DAILY_VOL

Max(a, b) == IF a > b THEN a ELSE b
Min(a, b) == IF a < b THEN a ELSE b

\* score_row, in tenths
score_row(row, nscore) ==
    LET trend    == IF row.Close > row.EMA20 /\ row.EMA20 > row.EMA50 THEN 2
                    ELSE IF row.Close < row.EMA20 /\ row.EMA20 < row.EMA50 THEN -2
                    ELSE 0
        momentum == IF row.MACD_H > 0 THEN 1 ELSE -1
        rsi_dist == row.RSI - 50
        vsurge   == IF row.Volume > 2 * row.VOL20 THEN 2
                    ELSE IF 2 * row.Volume > 3 * row.VOL20 THEN 1
                    ELSE 0
        nsc      == Max(-2, Min(2, nscore))
    IN  trend * 20 + momentum * 15 + rsi_dist + vsurge * 12 + nsc * 10

bias_from_score(sc) == IF sc >= 0 THEN "CALL" ELSE "PUT"

\* levels_from_atr, in cents: er, tg, st are price * atrp/100 * 0.35, 1.10, 0.70
levels_from_atr(price, atrp, bias) ==
    LET lo(w) == RoundDiv(price * 10000 - price * atrp * w, 10000)
        hi(w) == RoundDiv(price * 10000 + price * atrp * w, 10000)
    IN  IF bias = "CALL"
        THEN [entry |-> <<lo(35), hi(35)>>, target |-> hi(110), stop |-> lo(70)]
        ELSE [entry |-> <<lo(35), hi(35)>>, target |-> lo(110), stop |-> hi(70)]

\* "High" if (atrp >= 4 or abs(nsc) >= 2 or earn_flag) else "Medium"
RiskOf(atrp, nsc, earn_flag) ==
    IF atrp >= 4 \/ Abs(nsc) >= 2 \/ earn_flag THEN "High" ELSE "Medium"

\* lines 205-242: the row of one symbol
ScanRow(tkr, last, nsc, earn_flag, optin) ==
    LET price == last.Close
        total == score_row(last, nsc)
        bias  == bias_from_score(total)
        lv    == levels_from_atr(price, last.ATRp, bias)
        oc    == OptionColumns(pick_option_contract(
                     [optin EXCEPT !.bias = bias, !.spot = price]))
    IN  [Ticker |-> tkr, Price |-> price, Type |-> bias,
         TargetExpiration |-> oc.exp,
         BuyRange |-> lv.entry, SellTarget |-> lv.target, StopIdea |-> lv.stop,
         Risk |-> RiskOf(last.ATRp, nsc, earn_flag),
         OptionContract |-> oc.sym, Strike |-> oc.strike, OptMid |-> oc.mid,
         SpreadPct |-> oc.sp, OptVol |-> oc.ov, OptOI |-> oc.oi,
         OptNote |-> oc.note, ScoreAbs |-> Abs(total), ok_contract |-> oc.ok]

AfterException_Propagates == "raised"

\* except: continue
AfterException == "loop"

(***************************************************************************)
(* run_scan's end: the view.                                               *)
(***************************************************************************)
\* sort_values(["ScoreAbs", "Risk"], ascending=[False, True]); "High" < "Medium"
RowBefore(a, b) ==
    \/ a.ScoreAbs > b.ScoreAbs
    \/ a.ScoreAbs = b.ScoreAbs /\ a.Risk = "High" /\ b.Risk = "Medium"

\* the stable sort: position i of the sorted frame
RECURSIVE SortRows(_)
SortRows(rs) ==
    IF rs = <<>> THEN <<>>
    ELSE LET i == CHOOSE i \in DOMAIN rs :
                    \A j \in DOMAIN rs \ {i} :
                        \/ RowBefore(rs[i], rs[j])
                        \/ ~RowBefore(rs[j], rs[i]) /\ i < j
             rest == [k \in 1..(Len(rs) - 1) |-> IF k < i THEN rs[k] ELSE rs[k + 1]]
         IN  <<rs[i]>> \o SortRows(rest)

Head_k(rs, k) == SubSeq(rs, 1, Min(k, Len(rs)))

IsOk(r) == r.ok_contract

\* the view built from all the rows
ScanResult_AllRows(rs, k, u) ==
    IF rs = <<>>
    THEN [view |-> <<>>, used |-> u, msg |-> "No candidates."]
    ELSE [view |-> Head_k(SortRows(rs), k), used |-> u, msg |-> ""]

\* lines 246-256
ScanResult(rs, k, u) ==
    IF rs = <<>>
    THEN [view |-> <<>>, used |-> u, msg |-> "No candidates."]
    ELSE LET good == SelectSeq(rs, IsOk)
         IN  [view |-> Head_k(SortRows(IF good = <<>> THEN rs ELSE good), k),
              used |-> u, msg |-> ""]

(***************************************************************************)
(* Inputs of Spec and SpecDownload.                                        *)
(***************************************************************************)
BarCounts == {0, 30, 60}

Frames == {[cols |-> FALSE, bars |-> 60]} \cup [cols : {TRUE}, bars : BarCounts]

RawResponses ==
    { [shape |-> "multi", frames |-> f] :
          f \in UNION { [S -> Frames] : S \in SUBSET Tickers } }
    \cup { [shape |-> "flat", frames |-> <<f>>] : f \in Frames }
    \cup { [shape |-> "none", frames |-> <<>>] }

NoRaw == [shape |-> "unlogged"]

DailyAnswers == { [empty |-> TRUE, px |-> 0, avgv |-> 0],
                  [empty |-> FALSE, px |-> 499, avgv |-> 2000],
                  [empty |-> FALSE, px |-> 500, avgv |-> 1999],
                  [empty |-> FALSE, px |-> 500, avgv |-> 2000] }

LastRows ==
    { [Close |-> 11000, EMA20 |-> 10500, EMA50 |-> 10000, MACD_H |-> 1, RSI |-> 60,
       Volume |-> 300, VOL20 |-> 100, ATRp |-> 2],
      [Close |-> 9000, EMA20 |-> 9500, EMA50 |-> 10000, MACD_H |-> -1, RSI |-> 40,
       Volume |-> 100, VOL20 |-> 100, ATRp |-> 4],
      [Close |-> 10000, EMA20 |-> 10000, EMA50 |-> 10000, MACD_H |-> 0, RSI |-> 65,
       Volume |-> 160, VOL20 |-> 100, ATRp |-> 2] }

NewsScores == {0, -3}

\* the provider's option data for a symbol, in cents: no expiration listed; one
\* row with a 20% spread; one row with a 4% spread
ScanOptInputs ==
    LET wide  == << Row(10000, <<Num(90), Num(110)>>, <<Num(300), Num(500)>>) >>
        tight == << Row(10000, <<Num(98), Num(102)>>, <<Num(300), Num(500)>>) >>
    IN  { OptIn(<<>>, FALSE, FALSE, <<>>, <<>>, "CALL"),
          OptIn(<<7>>, FALSE, FALSE, wide, wide, "CALL"),
          OptIn(<<7>>, FALSE, FALSE, tight, tight, "CALL") }

TopKs == {1, 10}

ScanInit == /\ pc = "download"
            /\ attempts = <<>>
            /\ data = EmptyDict
            /\ used = <<>>
            /\ todo = <<>>
            /\ outcome = [t \in Tickers |-> "pending"]
            /\ rows = <<>>
            /\ top_k \in TopKs
            /\ result = <<>>

\* one turn of safe_download's loop; the answer is logged when keep is TRUE
DownloadAttempt(keep) ==
    /\ pc = "download"
    /\ \E raw \in RawResponses :
          LET i   == Len(attempts) + 1
              got == AttemptData(raw, UNIVERSE)
          IN  /\ attempts' = Append(attempts,
                                [period |-> Periods[i].period,
                                 interval |-> Periods[i].interval,
                                 raw |-> IF keep THEN raw ELSE NoRaw])
              /\ IF TriesNext(got, i)
                 THEN UNCHANGED <<pc, data, used, todo, outcome>>
                 ELSE /\ pc' = "loop"
                      /\ data' = got
                      /\ used' = IF DOMAIN got = {} THEN <<>>
                                 ELSE <<Periods[i].period, Periods[i].interval>>
                      /\ todo' = Sorted(DOMAIN got)
                      /\ outcome' = [t \in Tickers |->
                                       IF t \in DOMAIN got THEN "pending" ELSE "absent"]
    /\ UNCHANGED <<rows, top_k, result>>

\* the loop body for the next ticker of data.items()
ScanSymbol ==
    /\ pc = "loop" /\ todo # <<>>
    /\ LET tkr == Head(todo)
       IN  \E raises \in BOOLEAN, d \in DailyAnswers, last \in LastRows,
              nsc \in NewsScores, earn_flag \in BOOLEAN, optin \in ScanOptInputs :
              IF raises
              THEN /\ pc' = AfterException
                   /\ outcome' = [outcome EXCEPT ![tkr] = "raised"]
                   /\ rows' = rows
              ELSE IF IndicatorRows(data[tkr]) = 0
              THEN /\ pc' = "loop"
                   /\ outcome' = [outcome EXCEPT ![tkr] = "empty"]
                   /\ rows' = rows
              ELSE IF ~daily_liquidity_ok(d)
              THEN /\ pc' = "loop"
                   /\ outcome' = [outcome EXCEPT ![tkr] = "illiquid"]
                   /\ rows' = rows
              ELSE /\ pc' = "loop"
                   /\ outcome' = [outcome EXCEPT ![tkr] = "row"]
                   /\ rows' = Append(rows, ScanRow(tkr, last, nsc, earn_flag, optin))
    /\ todo' = Tail(todo)
    /\ UNCHANGED <<attempts, data, used, top_k, result>>

\* lines 246-256
Finish ==
    /\ pc = "loop" /\ todo = <<>>
    /\ result' = ScanResult(rows, top_k, used)
    /\ pc' = "done"
    /\ UNCHANGED <<attempts, data, used, todo, outcome, rows, top_k>>

(***************************************************************************)
(* The earnings functions.  A date is its number of days from today,       *)
(* (d - today).days; a datetime is taken at the day it falls on.  The      *)
(* provider's answers are in: [dates, ed_raises, cal, cal_raises, days,    *)
(* etf, wd]: the index of get_earnings_dates (<<>> for None or an empty    *)
(* frame), the dates of the calendar, the window asked for, whether the    *)
(* symbol is an ETF, and today's weekday (0 is Monday).                    *)
(***************************************************************************)
\* scanner._next_earnings_from_df: min(future) if future else None
_next_earnings_from_df(dates) ==
    LET future == SelectSeq(dates, IsFuture)
    IN  IF future # <<>> THEN <<SeqMin(future)>> ELSE <<>>

\* scanner.earnings_for_ticker: the dates it reports (one dict, or None)
earnings_for_ticker(in) ==
    IF in.ed_raises THEN <<>>
    ELSE LET nxt == _next_earnings_from_df(in.dates)
         IN  IF nxt = <<>> THEN <<>>
             ELSE IF Abs(nxt[1]) <= in.days THEN nxt ELSE <<>>

WithinSeven(d) == Abs(d) <= 7

\* bot.earnings_within_7d: hits, in the order of the index
earnings_within_7d(in) ==
    IF in.ed_raises THEN <<>> ELSE SelectSeq(in.dates, WithinSeven)

\* min(seq, key=lambda d: abs((d - today).days)): the first of the nearest
NearestByAbs(seq) ==
    seq[CHOOSE i \in DOMAIN seq :
          \A j \in DOMAIN seq \ {i} :
              \/ Abs(seq[i]) < Abs(seq[j])
              \/ Abs(seq[i]) = Abs(seq[j]) /\ i < j]

\* sorted(dates)
RECURSIVE SortedDays(_)
SortedDays(seq) ==
    IF seq = <<>> THEN <<>>
    ELSE LET i == CHOOSE i \in DOMAIN seq : \A j \in DOMAIN seq : seq[i] <= seq[j]
         IN  <<seq[i]>> \o SortedDays([k \in 1..(Len(seq) - 1) |->
                                          IF k < i THEN seq[k] ELSE seq[k + 1]])

\* scanner_core.trading_days_between(today, d): len(pd.bdate_range(a, b)) - 1
trading_days_between(wd, d) ==
    LET lo == IF d < 0 THEN d ELSE 0
        hi == IF d < 0 THEN 0 ELSE d
    IN  Cardinality({ k \in lo..hi : (wd + k + 70) % 7 < 5 }) - 1

\* scanner_core.earnings_window_flag, with the sources it consulted
earnings_window_flag(in) ==
    IF in.etf THEN [flag |-> FALSE, date |-> <<>>, consulted |-> <<>>]
    ELSE IF ~in.ed_raises /\ in.dates # <<>>
    THEN LET nearest == NearestByAbs(SortedDays(in.dates))
         IN  [flag |-> trading_days_between(in.wd, nearest) <= in.days,
              date |-> <<nearest>>, consulted |-> <<"earnings_dates">>]
    ELSE IF ~in.cal_raises /\ in.cal # <<>>
    THEN LET nearest == NearestByAbs(in.cal)
         IN  [flag |-> trading_days_between(in.wd, nearest) <= in.days,
              date |-> <<nearest>>, consulted |-> <<"earnings_dates", "calendar">>]
    ELSE [flag |-> FALSE, date |-> <<>>, consulted |-> <<"earnings_dates", "calendar">>]

\* now <= dtu <= now + timedelta(days=days)
InHorizon(d, days) == 0 <= d /\ d <= days

\* src/bot._next_earnings_within, with the sources it consulted
_next_earnings_within(in) ==
    LET hit(d) == InHorizon(d, in.days)
        first  == IF in.ed_raises THEN <<>> ELSE SelectSeq(in.dates, hit)
    IN  IF first # <<>>
        THEN [date |-> <<first[1]>>, consulted |-> <<"earnings_dates">>]
        ELSE IF in.cal_raises \/ in.cal = <<>>
        THEN [date |-> <<>>, consulted |-> <<"earnings_dates", "calendar">>]
        ELSE IF InHorizon(in.cal[1], in.days)
        THEN [date |-> <<in.cal[1]>>, consulted |-> <<"earnings_dates", "calendar">>]
        ELSE [date |-> <<>>, consulted |-> <<"earnings_dates", "calendar">>]

MaxDates == 2

EarnDays == {-8, -5, -1, 0, 5, 8}
CalDays  == {2, 30}
Windows  == {3, 7}
Weekdays == {1, 5}

EarnInputs == [dates : SeqsUpTo(EarnDays, MaxDates), ed_raises : BOOLEAN,
               cal : SeqsUpTo(CalDays, 1), cal_raises : BOOLEAN,
               days : Windows, etf : BOOLEAN, wd : Weekdays]

EarnInit == /\ earn_pc = "idle"
            /\ earn_in \in EarnInputs
            /\ earn_out = <<>>

EarnReturn(out) == /\ earn_pc = "idle"
                   /\ earn_out' = out
                   /\ earn_pc' = "done"
                   /\ UNCHANGED earn_in

NextEarningsFromDf ==
    EarnReturn([fn |-> "_next_earnings_from_df",
                date |-> _next_earnings_from_df(earn_in.dates)])

EarningsForTicker ==
    EarnReturn([fn |-> "earnings_for_ticker", hits |-> earnings_for_ticker(earn_in)])

EarningsWithin7d ==
    EarnReturn([fn |-> "earnings_within_7d", hits |-> earnings_within_7d(earn_in)])

EarningsWindowFlag ==
    LET r == earnings_window_flag(earn_in)
    IN  EarnReturn([fn |-> "earnings_window_flag", flag |-> r.flag, date |-> r.date,
                    consulted |-> r.consulted])

NextEarningsWithin ==
    LET r == _next_earnings_within(earn_in)
    IN  EarnReturn([fn |-> "_next_earnings_within", date |-> r.date,
                    consulted |-> r.consulted])

(***************************************************************************)
(* The trade plans on their own: levels_from_atr called with a price in    *)
(* cents, an ATR% and a bias, and the bands of analyze_symbol, lines       *)
(* 250-259, for the bias analyze_symbol computed (CALL or PUT).            *)
(***************************************************************************)
MaxAtrp == 5

PlanPrices == {8000, 10000, 12000, 12345}

PlanInputs == [price : PlanPrices, atrp : 1..MaxAtrp, bias : {"CALL", "PUT", "NEUTRAL"}]

PlanInit == /\ plan_pc = "idle"
            /\ plan_in \in PlanInputs
            /\ plan_out = <<>>

LevelsFromAtr ==
    /\ plan_pc = "idle"
    /\ LET lv == levels_from_atr(plan_in.price, plan_in.atrp, plan_in.bias)
       IN  plan_out' = [fn |-> "levels_from_atr", last |-> plan_in.price,
                        buy_low |-> lv.entry[1], buy_high |-> lv.entry[2],
                        target |-> lv.target, stop |-> lv.stop]
    /\ plan_pc' = "done"
    /\ UNCHANGED plan_in

\* in thousandths of a cent
FixedPctPlan ==
    /\ plan_pc = "idle"
    /\ plan_in.bias \in {"CALL", "PUT"}
    /\ LET pl == SymbolPlan(plan_in.price, plan_in.bias)
       IN  plan_out' = [fn |-> "analyze_symbol", last |-> plan_in.price * 1000,
                        buy_low |-> pl.buy_low, buy_high |-> pl.buy_high,
                        target |-> pl.target, stop |-> pl.stop]
    /\ plan_pc' = "done"
    /\ UNCHANGED plan_in

(***************************************************************************)
(* The earnings cache of scanner.py: one JSON file, read whole by          *)
(* _load_earnings_cache and written whole by _save_earnings_cache through  *)
(* a temporary file of a fixed name.  Two calls (refresh_all_caches or     *)
(* earnings_universe_window, each in its own thread) run on it.            *)
(*                                                                         *)
(* Units.  A universe entry is a block of BlockSize consecutive symbols    *)
(* whose cache entries are in the same state, and a fetch step fetches one *)
(* block; the cap of 500 symbols is FETCH_CAP \div BlockSize blocks, and   *)
(* "i % 50 == 0" holds at the end of every block.  Time is in hours; the   *)
(* clock advances by one at every block fetched, so a timestamp names the  *)
(* fetch that wrote it.  An entry is [ts]; its date is not modelled.       *)
(*                                                                         *)
(* Files.  inodes[k] is the content of file k: [st |-> "empty"], [st |->   *)
(* "partial", by] (the first part of one dump), [st |-> "full", d] (one    *)
(* complete dump) or [st |-> "mixed"] (bytes of more than one dump, or the *)
(* tail of one).  cache_path and tmp_path are the files the two names      *)
(* refer to, 0 when there is no such file.  open(tmp, "w") truncates the   *)
(* file of that name or creates one; os.replace renames it.                *)
(***************************************************************************)
NumBlocks == 2

BlockSize == 500

FETCH_CAP    == 500
SAVE_EVERY   == 50
STALE_AFTER  == 24

T0 == 100

Procs == {1, 2}

\* scanner.ensure_universe, in blocks
CacheUniverse == [i \in 1..NumBlocks |-> i]

CacheKinds == {"refresh_all_caches", "earnings_universe_window"}

Empty       == [st |-> "empty"]
Partial(p)  == [st |-> "partial", by |-> p]
Full(d)     == [st |-> "full", d |-> d]
Mixed       == [st |-> "mixed"]

NoEntries == [b \in {} |-> [ts |-> 0]]

\* json.load of a file: an exception (caught, {}) unless it holds one complete dump
Parsed(content) == IF content.st = "full" THEN content.d ELSE NoEntries

\* scanner._load_earnings_cache
_load_earnings_cache(path, files) ==
    IF path = 0 THEN NoEntries ELSE Parsed(files[path])

\* (s not in cache) or (cache[s].get("ts", 0) < stale_cut)
IsStaleOrMissing(cache, b, t) ==
    \/ b \notin DOMAIN cache
    \/ cache[b].ts < t - STALE_AFTER

CapPrefix_All(seq) == seq

\* to_fetch[:500]
CapPrefix(seq) ==
    LET n == FETCH_CAP \div BlockSize
    IN  IF Len(seq) <= n THEN seq ELSE SubSeq(seq, 1, n)

\* earnings_universe_window, lines 328-335: the batch it will fetch
WindowBatch(cache, t) ==
    LET stale(b) == IsStaleOrMissing(cache, b, t)
    IN  CapPrefix(SelectSeq(CacheUniverse, stale))

\* cache[sym] = {"date": ..., "ts": time.time()}
Put(cache, b, t) ==
    [x \in DOMAIN cache \cup {b} |-> IF x = b THEN [ts |-> t] ELSE cache[x]]

InitialEntries ==
    UNION { [S -> { [ts |-> T0 - STALE_AFTER - 1], [ts |-> T0 - STALE_AFTER] }] :
            S \in SUBSET (1..NumBlocks) }

NotStarted == [kind |-> "none", pc |-> "done", cache |-> NoEntries, loaded |-> NoEntries,
               batch |-> <<>>, i |-> 0, fh |-> 0, final |-> FALSE]

Started(k) == [NotStarted EXCEPT !.kind = k, !.pc = "load"]

\* the cache file before the calls: absent, or one complete dump
CacheFileInit ==
    /\ clock = T0
    /\ tmp_path = 0
    /\ \/ inodes = <<>> /\ cache_path = 0
       \/ \E d \in InitialEntries : inodes = <<Full(d)>> /\ cache_path = 1

\* two calls on the same cache
CacheInit ==
    /\ CacheFileInit
    /\ \E k1, k2 \in CacheKinds : proc = [p \in Procs |-> Started(IF p = 1 THEN k1 ELSE k2)]

\* one call alone
CacheInitOne ==
    /\ CacheFileInit
    /\ \E k \in CacheKinds : proc = [p \in Procs |-> IF p = 1 THEN Started(k) ELSE NotStarted]

\* where the loop continues after i blocks: the save inside refresh_all_caches'
\* loop (i % 50 == 0), the next block, or the save after the loop
SavesInLoop(kind, i) ==
    kind = "refresh_all_caches" /\ i > 0 /\ (i * BlockSize) % SAVE_EVERY = 0

\* cache = _load_earnings_cache(), and the list of what to fetch
Load(p) ==
    /\ proc[p].pc = "load"
    /\ LET c == _load_earnings_cache(cache_path, inodes)
           b == IF proc[p].kind = "refresh_all_caches" THEN CacheUniverse
                ELSE WindowBatch(c, clock)
       IN  proc' = [proc EXCEPT ![p].cache = c, ![p].loaded = c, ![p].batch = b,
                                ![p].i = 0, ![p].pc = "loop"]
    /\ UNCHANGED <<clock, inodes, cache_path, tmp_path>>

\* one pass of the loop body: fetch and store the entry
Fetch(p) ==
    /\ proc[p].pc = "loop"
    /\ proc[p].i < Len(proc[p].batch)
    /\ LET i == proc[p].i + 1
       IN  proc' = [proc EXCEPT
                      ![p].cache = Put(@, proc[p].batch[i], clock),
                      ![p].i = i,
                      ![p].pc = IF SavesInLoop(proc[p].kind, i) THEN "open" ELSE "loop"]
    /\ clock' = clock + 1
    /\ UNCHANGED <<inodes, cache_path, tmp_path>>

\* _save_earnings_cache: open(tmp, "w")
OpenTmp(p) ==
    /\ \/ proc[p].pc = "open"
       \/ proc[p].pc = "loop" /\ proc[p].i = Len(proc[p].batch)
    /\ IF tmp_path # 0
       THEN /\ inodes' = [inodes EXCEPT ![tmp_path] = Empty]
            /\ proc' = [proc EXCEPT ![p].fh = tmp_path, ![p].pc = "dump",
                                    ![p].final = (proc[p].pc = "loop")]
            /\ UNCHANGED tmp_path
       ELSE /\ inodes' = Append(inodes, Empty)
            /\ tmp_path' = Len(inodes) + 1
            /\ proc' = [proc EXCEPT ![p].fh = Len(inodes) + 1, ![p].pc = "dump",
                                    ![p].final = (proc[p].pc = "loop")]
    /\ UNCHANGED <<clock, cache_path>>

\* json.dump: the buffer is flushed before the dump is complete
Dump(p) ==
    /\ proc[p].pc = "dump"
    /\ inodes' = [inodes EXCEPT ![proc[p].fh] =
                     IF @.st = "empty" THEN Partial(p) ELSE Mixed]
    /\ proc' = [proc EXCEPT ![p].pc = "close"]
    /\ UNCHANGED <<clock, cache_path, tmp_path>>

\* the end of the with block: the rest of the dump (all of it when the buffer
\* was never flushed) reaches the file
Close(p) ==
    /\ proc[p].pc \in {"dump", "close"}
    /\ LET mine == IF proc[p].pc = "dump" THEN Empty ELSE Partial(p)
       IN  inodes' = [inodes EXCEPT ![proc[p].fh] =
                         IF @ = mine THEN Full(proc[p].cache) ELSE Mixed]
    /\ proc' = [proc EXCEPT ![p].pc = "replace"]
    /\ UNCHANGED <<clock, cache_path, tmp_path>>

\* os.replace(tmp, EARNINGS_CACHE): FileNotFoundError when tmp is gone
Replace(p) ==
    /\ proc[p].pc = "replace"
    /\ IF tmp_path = 0
       THEN /\ proc' = [proc EXCEPT ![p].pc = "raised"]
            /\ UNCHANGED <<cache_path, tmp_path>>
       ELSE /\ cache_path' = tmp_path
            /\ tmp_path' = 0
            /\ proc' = [proc EXCEPT ![p].pc = IF proc[p].final THEN "done" ELSE "loop"]
    /\ UNCHANGED <<clock, inodes>>


(***************************************************************************)
(* src/bot._earnings_scan: one task per ticker, each holding the           *)
(* asyncio.Semaphore while its _next_earnings_within runs in the executor. *)
(* scan_in is [lookups, max_concurrency]; lookups[i] is what the provider  *)
(* will make of ticker i's lookup: [k |-> "hit", day] (a date within the   *)
(* horizon), [k |-> "none"] (no such date) or [k |-> "failed"] (an         *)
(* exception inside _next_earnings_within, which returns None).            *)
(* asyncio.Semaphore serves its waiters first come, first served, and an   *)
(* acquire does not overtake a waiter.                                     *)
(***************************************************************************)
NumTickers == 3

HitDays == {5, 9}

Lookups == { [k |-> "none"], [k |-> "failed"] } \cup { [k |-> "hit", day |-> d] : d \in HitDays }

\* 12 is what earnings_watch passes
Concurrencies == {1, 2, 12}

EarningsScanInit ==
    /\ scan_pc = "gather"
    /\ \E l \in SeqsUpTo(Lookups, NumTickers), c \in Concurrencies :
          scan_in = [lookups |-> l, max_concurrency |-> c]
    /\ sem = scan_in.max_concurrency
    /\ waiters = <<>>
    /\ task = [i \in DOMAIN scan_in.lookups |-> "created"]
    /\ results = <<>>

\* Semaphore.locked(): no permit left, or somebody is already waiting
Locked_Never(value, queue) == FALSE

Locked(value, queue) == value = 0 \/ queue # <<>>

\* the first step of worker(sym): "async with sem", then run_in_executor.  The
\* event loop starts the tasks in the order create_task made them.
StartWorker ==
    /\ scan_pc = "gather"
    /\ \E i \in DOMAIN task :
          /\ task[i] = "created"
          /\ \A j \in 1..(i - 1) : task[j] # "created"
          /\ IF Locked(sem, waiters)
             THEN /\ waiters' = Append(waiters, i)
                  /\ task' = [task EXCEPT ![i] = "waiting"]
                  /\ UNCHANGED sem
             ELSE /\ sem' = sem - 1
                  /\ task' = [task EXCEPT ![i] = "lookup"]
                  /\ UNCHANGED waiters
    /\ UNCHANGED <<scan_pc, scan_in, results>>

\* _next_earnings_within(sym, days), lines 138-176: the datetime, or None
LookupValue(l) == IF l.k = "hit" THEN <<l.day>> ELSE <<>>

\* the lookup returns: "if dt: results.append((sym, dt))", and leaving the
\* "async with" hands the permit to the first waiter or back to the semaphore
LookupDone ==
    /\ scan_pc = "gather"
    /\ \E i \in DOMAIN task :
          /\ task[i] = "lookup"
          /\ LET dt == LookupValue(scan_in.lookups[i])
             IN  results' = IF dt # <<>> THEN Append(results, [sym |-> i, dt |-> dt[1]])
                            ELSE results
          /\ IF waiters # <<>>
             THEN /\ task' = [task EXCEPT ![i] = "done", ![Head(waiters)] = "lookup"]
                  /\ waiters' = Tail(waiters)
                  /\ UNCHANGED sem
             ELSE /\ task' = [task EXCEPT ![i] = "done"]
                  /\ sem' = sem + 1
                  /\ UNCHANGED waiters
    /\ UNCHANGED <<scan_pc, scan_in>>

\* results.sort(key=lambda x: x[1]): stable
RECURSIVE SortByDate(_)
SortByDate(seq) ==
    IF seq = <<>> THEN <<>>
    ELSE LET i == CHOOSE i \in DOMAIN seq :
                     /\ \A j \in DOMAIN seq : seq[i].dt <= seq[j].dt
                     /\ \A j \in 1..(i - 1) : seq[j].dt > seq[i].dt
         IN  <<seq[i]>> \o SortByDate([k \in 1..(Len(seq) - 1) |->
                                          IF k < i THEN seq[k] ELSE seq[k + 1]])

\* gather returns when every task is done; the sorted results are returned
ScanReturn ==
    /\ scan_pc = "gather"
    /\ \A i \in DOMAIN task : task[i] = "done"
    /\ results' = SortByDate(results)
    /\ scan_pc' = "returned"
    /\ UNCHANGED <<scan_in, sem, waiters, task>>

(***************************************************************************)
(* src/utils/universe.UniverseManager.  univ_in is the environment of one  *)
(* initialize(): file is the symbols file ("missing", "unreadable",        *)
(* "empty": present with no symbol line, "symbols"), import is which       *)
(* import of generate_symbols_file.main succeeds ("src", "relative",       *)
(* "fails"), all_tickers and scan_universe are the two environment         *)
(* variables ("unset", "blank": separators only, "symbols").               *)
(***************************************************************************)
DEFAULT_UNIVERSE_FALLBACK == <<"AAPL", "MSFT", "NVDA", "TSLA", "AMZN", "AMD", "JPM">>

FileSymbols == <<"IWM", "SPY">>
AllTickers  == <<"AAPL", "QQQ">>
ScanUniverse == <<"DIA">>

\* an Optional[List[str]]: <<list>>, or <<>> for None
NoList == <<>>

List(l) == <<l>>

IsList(x) == x # <<>>

\* UniverseManager._load_from_file
_load_from_file(env) ==
    CASE env.file = "symbols" -> List(FileSymbols)
      [] env.file = "empty"   -> List(<<>>)
      [] OTHER                -> NoList

\* sorted(set(_parse_csv_symbols(text)))
EnvList(v, listed) == IF v = "blank" THEN List(<<>>) ELSE List(listed)

\* UniverseManager._load_from_env: the first variable whose text is not empty
_load_from_env(env) ==
    IF env.all_tickers # "unset" THEN EnvList(env.all_tickers, AllTickers)
    ELSE IF env.scan_universe # "unset" THEN EnvList(env.scan_universe, ScanUniverse)
    ELSE NoList

\* "not file_rows" is true of None and of []
Falsy(file_rows) == ~IsList(file_rows) \/ file_rows[1] = <<>>

\* generate_symbols_file.main(write_file=True): main takes argv only, so the
\* call raises TypeError before its body runs
gen_main(kw) == [raises |-> kw # "argv"]

UnivInputs == [file : {"missing", "unreadable", "empty", "symbols"},
               import : {"src", "relative", "fails"},
               all_tickers : {"unset", "blank", "symbols"},
               scan_universe : {"unset", "blank", "symbols"}]

Limits == {0, 1}

UnivInit == /\ univ_pc = "new"
            /\ univ_in \in UnivInputs
            /\ symbols = <<>>
            /\ returned = <<>>

\* lines 80-84
FallBack(env, file_rows) ==
    IF Falsy(file_rows)
    THEN LET env_rows == _load_from_env(env)
         IN  IF Falsy(env_rows) THEN DEFAULT_UNIVERSE_FALLBACK ELSE env_rows[1]
    ELSE file_rows[1]

\* UniverseManager.initialize
Initialize ==
    /\ univ_pc = "new"
    /\ LET file_rows == _load_from_file(univ_in)
       IN  IF ~IsList(file_rows) /\ univ_in.import # "fails"
           THEN LET r == gen_main("write_file")
                IN  IF r.raises
                    THEN univ_pc' = "raised" /\ UNCHANGED symbols
                    \* main returns 0, and "not 0" is true
                    ELSE univ_pc' = "initialized" /\ symbols' = FallBack(univ_in, NoList)
           ELSE univ_pc' = "initialized" /\ symbols' = FallBack(univ_in, file_rows)
    /\ UNCHANGED <<univ_in, returned>>

\* UniverseManager.get(limit): symbols[: limit or None]
Get ==
    /\ univ_pc = "initialized"
    /\ \E limit \in Limits :
          LET src == IF symbols = <<>> THEN DEFAULT_UNIVERSE_FALLBACK ELSE symbols
          IN  returned' = IF limit = 0 \/ limit >= Len(src) THEN src ELSE SubSeq(src, 1, limit)
    /\ univ_pc' = "got"
    /\ UNCHANGED <<univ_in, symbols>>

(***************************************************************************)
(* The machines that a specification does not run stay parked.             *)
(***************************************************************************)
OptParked == /\ opt_pc = "off"
             /\ opt_in = <<>>
             /\ pick = NonePick
             /\ opt_row = <<>>

BiasParked == /\ bias_pc = "off"
              /\ bias_in = <<>>
              /\ card = <<>>

ScanParked == /\ pc = "off"
              /\ attempts = <<>>
              /\ data = <<>>
              /\ used = <<>>
              /\ todo = <<>>
              /\ outcome = <<>>
              /\ rows = <<>>
              /\ top_k = 0
              /\ result = <<>>

EarnParked == /\ earn_pc = "off"
              /\ earn_in = <<>>
              /\ earn_out = <<>>

PlanParked == /\ plan_pc = "off"
              /\ plan_in = <<>>
              /\ plan_out = <<>>

CacheParked == /\ clock = 0
               /\ inodes = <<>>
               /\ cache_path = 0
               /\ tmp_path = 0
               /\ proc = <<>>

PoolParked == /\ scan_pc = "off"
              /\ scan_in = <<>>
              /\ sem = 0
              /\ waiters = <<>>
              /\ task = <<>>
              /\ results = <<>>

UnivParked == /\ univ_pc = "off"
              /\ univ_in = <<>>
              /\ symbols = <<>>
              /\ returned = <<>>

(***************************************************************************)
(* SpecOption                                                              *)
(***************************************************************************)
InitOption == OptInit /\ BiasParked /\ ScanParked /\ EarnParked /\ PlanParked /\ CacheParked /\ PoolParked /\ UnivParked

NextOption == \/ PickOption /\ UNCHANGED <<biasVars, scanVars, earnVars, planVars, cacheVars, poolVars, univVars>>
              \/ PickOptionBot /\ UNCHANGED <<biasVars, scanVars, earnVars, planVars, cacheVars, poolVars, univVars>>
              \/ FindAtmOption /\ UNCHANGED <<biasVars, scanVars, earnVars, planVars, cacheVars, poolVars, univVars>>
              \/ BuildOptionColumns /\ UNCHANGED <<biasVars, scanVars, earnVars, planVars, cacheVars, poolVars, univVars>>

SpecOption == InitOption /\ [][NextOption]_vars

(***************************************************************************)
(* SpecBias                                                                *)
(***************************************************************************)
InitBias == BiasInit /\ OptParked /\ ScanParked /\ EarnParked /\ PlanParked /\ CacheParked /\ PoolParked /\ UnivParked

NextBias == \/ AnalyzeOneTicker /\ UNCHANGED <<optVars, scanVars, earnVars, planVars, cacheVars, poolVars, univVars>>
            \/ AnalyzeSymbol /\ UNCHANGED <<optVars, scanVars, earnVars, planVars, cacheVars, poolVars, univVars>>
            \/ AnalyzeTickerDaily /\ UNCHANGED <<optVars, scanVars, earnVars, planVars, cacheVars, poolVars, univVars>>
            \/ ClassifyDirect /\ UNCHANGED <<optVars, scanVars, earnVars, planVars, cacheVars, poolVars, univVars>>
            \/ AnalyzeSymbolCall /\ UNCHANGED <<optVars, scanVars, earnVars, planVars, cacheVars, poolVars, univVars>>

SpecBias == InitBias /\ [][NextBias]_vars

(***************************************************************************)
(* SpecDownload: safe_download alone, every provider answer logged.        *)
(***************************************************************************)
InitDownload == ScanInit /\ OptParked /\ BiasParked /\ EarnParked /\ PlanParked /\ CacheParked /\ PoolParked /\ UnivParked

NextDownload == DownloadAttempt(TRUE) /\ UNCHANGED <<optVars, biasVars, earnVars, planVars, cacheVars, poolVars, univVars>>

SpecDownload == InitDownload /\ [][NextDownload]_vars

(***************************************************************************)
(* Spec: run_scan                                                          *)
(***************************************************************************)
Init == ScanInit /\ OptParked /\ BiasParked /\ EarnParked /\ PlanParked /\ CacheParked /\ PoolParked /\ UnivParked

Next == \/ DownloadAttempt(FALSE) /\ UNCHANGED <<optVars, biasVars, earnVars, planVars, cacheVars, poolVars, univVars>>
        \/ ScanSymbol /\ UNCHANGED <<optVars, biasVars, earnVars, planVars, cacheVars, poolVars, univVars>>
        \/ Finish /\ UNCHANGED <<optVars, biasVars, earnVars, planVars, cacheVars, poolVars, univVars>>

Spec == Init /\ [][Next]_vars

(***************************************************************************)
(* SpecEarnings: one call of one of the earnings functions                 *)
(***************************************************************************)
InitEarnings == EarnInit /\ OptParked /\ BiasParked /\ ScanParked /\ PlanParked /\ CacheParked /\ PoolParked /\ UnivParked

NextEarnings ==
    \/ NextEarningsFromDf /\ UNCHANGED <<optVars, biasVars, scanVars, planVars, cacheVars, poolVars, univVars>>
    \/ EarningsForTicker /\ UNCHANGED <<optVars, biasVars, scanVars, planVars, cacheVars, poolVars, univVars>>
    \/ EarningsWithin7d /\ UNCHANGED <<optVars, biasVars, scanVars, planVars, cacheVars, poolVars, univVars>>
    \/ EarningsWindowFlag /\ UNCHANGED <<optVars, biasVars, scanVars, planVars, cacheVars, poolVars, univVars>>
    \/ NextEarningsWithin /\ UNCHANGED <<optVars, biasVars, scanVars, planVars, cacheVars, poolVars, univVars>>

SpecEarnings == InitEarnings /\ [][NextEarnings]_vars

(***************************************************************************)
(* SpecPlan: one trade plan                                                *)
(***************************************************************************)
InitPlan == PlanInit /\ OptParked /\ BiasParked /\ ScanParked /\ EarnParked /\ CacheParked /\ PoolParked /\ UnivParked

NextPlan == \/ LevelsFromAtr /\ UNCHANGED <<optVars, biasVars, scanVars, earnVars, cacheVars, poolVars, univVars>>
            \/ FixedPctPlan /\ UNCHANGED <<optVars, biasVars, scanVars, earnVars, cacheVars, poolVars, univVars>>

SpecPlan == InitPlan /\ [][NextPlan]_vars

(***************************************************************************)
(* SpecCache: two calls on the earnings cache; SpecCacheOne: one call      *)
(***************************************************************************)
CoreParked == OptParked /\ BiasParked /\ ScanParked /\ EarnParked /\ PlanParked

coreVars == <<optVars, biasVars, scanVars, earnVars, planVars>>

InitCache == CacheInit /\ CoreParked /\ PoolParked /\ UnivParked

NextCache ==
    \/ (\E p \in Procs : Load(p)) /\ UNCHANGED <<coreVars, poolVars, univVars>>
    \/ (\E p \in Procs : Fetch(p)) /\ UNCHANGED <<coreVars, poolVars, univVars>>
    \/ (\E p \in Procs : OpenTmp(p)) /\ UNCHANGED <<coreVars, poolVars, univVars>>
    \/ (\E p \in Procs : Dump(p)) /\ UNCHANGED <<coreVars, poolVars, univVars>>
    \/ (\E p \in Procs : Close(p)) /\ UNCHANGED <<coreVars, poolVars, univVars>>
    \/ (\E p \in Procs : Replace(p)) /\ UNCHANGED <<coreVars, poolVars, univVars>>

SpecCache == InitCache /\ [][NextCache]_vars

InitCacheOne == CacheInitOne /\ CoreParked /\ PoolParked /\ UnivParked

SpecCacheOne == InitCacheOne /\ [][NextCache]_vars

(***************************************************************************)
(* SpecPool: one _earnings_scan.  The event loop runs every task that is   *)
(* ready, and a lookup in the executor returns.                            *)
(***************************************************************************)
InitPool == EarningsScanInit /\ CoreParked /\ CacheParked /\ UnivParked

NextPool == \/ StartWorker /\ UNCHANGED <<coreVars, cacheVars, univVars>>
            \/ LookupDone /\ UNCHANGED <<coreVars, cacheVars, univVars>>
            \/ ScanReturn /\ UNCHANGED <<coreVars, cacheVars, univVars>>

SpecPool == InitPool /\ [][NextPool]_vars /\ WF_vars(NextPool)

(***************************************************************************)
(* SpecUniverse: one UniverseManager, initialized and then read            *)
(***************************************************************************)
InitUniverse == UnivInit /\ CoreParked /\ CacheParked /\ PoolParked

NextUniverse == \/ Initialize /\ UNCHANGED <<coreVars, cacheVars, poolVars>>
                \/ Get /\ UNCHANGED <<coreVars, cacheVars, poolVars>>

SpecUniverse == InitUniverse /\ [][NextUniverse]_vars

(***************************************************************************)
(* Properties of the option selector (SpecOption).  The tiers are restated *)
(* here from the thresholds, on the provider's table, independently of the *)
(* operators above.                                                        *)
(***************************************************************************)
OptTable == IF opt_in.bias = "PUT" THEN opt_in.puts ELSE opt_in.calls

\* an expiration was chosen and its chain was retrieved
OptChainRead == /\ ~opt_in.exps_raises /\ ~opt_in.chain_raises
                /\ opt_in.exps # <<>>

OptReturned == opt_pc \in {"picked", "row"}

\* row i has a usable quote and meets the thresholds (vol, oi, pct)
MeetsTier(i, vol, oi, pct) ==
    LET r == OptTable[i]
    IN  /\ r.bid.k = "num" /\ r.ask.k = "num"
        /\ r.volume.k = "num" /\ r.openInterest.k = "num"
        /\ r.bid.v + r.ask.v > 0
        /\ r.ask.v >= r.bid.v
        /\ r.volume.v >= vol
        /\ r.openInterest.v >= oi
        /\ 200 * (r.ask.v - r.bid.v) <= pct * (r.bid.v + r.ask.v)

StrictIds  == { i \in DOMAIN OptTable : MeetsTier(i, 300, 500, 8) }
RelaxedIds == { i \in DOMAIN OptTable : MeetsTier(i, 100, 100, 12) }
TierIds    == IF StrictIds # {} THEN StrictIds ELSE RelaxedIds

RowDist(i) == Abs(OptTable[i].strike - opt_in.spot)

\* spread% of row i is at most that of row j
RowSpreadLE(i, j) ==
    LET a == OptTable[i]
        b == OptTable[j]
    IN  (a.ask.v - a.bid.v) * (b.bid.v + b.ask.v)
            <= (b.ask.v - b.bid.v) * (a.bid.v + a.ask.v)

\* C8: whenever some row meets a tier, the contract returned is a row of the
\* strict tier if any row meets strict and of the relaxed tier otherwise; it
\* has the least distance from strike to spot within that tier and, among the
\* rows at that distance, the least spread%.
C8_StrictFirstAtmTightest ==
    (OptReturned /\ OptChainRead /\ TierIds # {}) =>
        /\ IsContractPick(pick)
        /\ pick.contract \in TierIds
        /\ \A j \in TierIds :
              /\ RowDist(pick.contract) <= RowDist(j)
              /\ RowDist(j) = RowDist(pick.contract) => RowSpreadLE(pick.contract, j)

\* a pick made by the tie-break: another row of the tier is as near to the spot
\* and has a wider spread
C8_Witness ==
    /\ OptReturned /\ OptChainRead /\ IsContractPick(pick)
    /\ \E j \in TierIds :
          /\ j # pick.contract
          /\ RowDist(j) = RowDist(pick.contract)
          /\ ~RowSpreadLE(j, pick.contract)

ColumnsBlank(r) == /\ r.sym = Blank /\ r.strike = Blank /\ r.mid = Blank
                   /\ r.sp = Blank /\ r.ov = Blank /\ r.oi = Blank

C10_ReportsTier ==
    (OptReturned /\ OptChainRead /\ StrictIds = {} /\ RelaxedIds # {}) =>
        /\ IsContractPick(pick)
        /\ pick.contract \in RelaxedIds
        /\ "tier" \in DOMAIN pick

(***************************************************************************)
(* Properties of the classifiers (SpecBias).  Seen is what the classifier  *)
(* was given: the direct call's arguments, or the last close and, for each *)
(* indicator whose window the series fills, its last value.                *)
(***************************************************************************)
Absent == [k |-> "absent"]

Present(x) == x.k = "num"

IfFilled(window, v) == IF bias_in.n >= window THEN [k |-> "num", v |-> v] ELSE Absent

Seen ==
    IF bias_in.src = "direct"
    THEN [last |-> bias_in.last, ema20 |-> bias_in.ema20, ema50 |-> bias_in.ema50,
          macd |-> bias_in.macd_diff, rsi |-> Absent]
    ELSE [last  |-> [k |-> "num", v |-> bias_in.close],
          ema20 |-> IfFilled(20, bias_in.e20),
          ema50 |-> IfFilled(50, bias_in.e50),
          macd  |-> IfFilled(34, bias_in.macd),
          rsi   |-> IfFilled(14, bias_in.rsi)]

Classified == bias_pc = "done" /\ card.ok

EmasPresent == Present(Seen.last) /\ Present(Seen.ema20) /\ Present(Seen.ema50)

UpTrend   == EmasPresent /\ Seen.last.v > Seen.ema20.v /\ Seen.ema20.v > Seen.ema50.v
DownTrend == EmasPresent /\ Seen.last.v < Seen.ema20.v /\ Seen.ema20.v < Seen.ema50.v

MacdNonNegative == Present(Seen.macd) => Seen.macd.v >= 0
MacdNonPositive == Present(Seen.macd) => Seen.macd.v <= 0

\* (last, ema20, ema50, macd, rsi) is the given example; a direct call has no rsi
SeenIs(l, e20, e50, m, r) ==
    /\ EmasPresent /\ Present(Seen.macd)
    /\ Seen.last.v = l /\ Seen.ema20.v = e20 /\ Seen.ema50.v = e50 /\ Seen.macd.v = m
    /\ Present(Seen.rsi) => Seen.rsi.v = r

\* C4: every classifier returns CALL when last > ema20 > ema50 and the MACD
\* histogram is absent or >= 0, PUT when last < ema20 < ema50 and the histogram
\* is absent or <= 0; (110,105,100,0.1,60) is CALL, (90,95,100,-0.1,40) is PUT
\* and (100,100,100,0,50) is NEUTRAL.
C4_PrimaryRule ==
    Classified =>
        /\ (UpTrend /\ MacdNonNegative) => card.bias = "CALL"
        /\ (DownTrend /\ MacdNonPositive) => card.bias = "PUT"
        /\ SeenIs(110, 105, 100, 1, 60) => card.bias = "CALL"
        /\ SeenIs(90, 95, 100, -1, 40) => card.bias = "PUT"
        /\ SeenIs(100, 100, 100, 0, 50) => card.bias = "NEUTRAL"

\* C5: when neither last > ema20 > ema50 nor last < ema20 < ema50, the bias is
\* CALL only with RSI >= 65 and a non-negative histogram, PUT only with RSI <= 35
\* and a non-positive histogram, and NEUTRAL otherwise.
C5_SecondaryRule ==
    (Classified /\ ~UpTrend /\ ~DownTrend) =>
        /\ card.bias \in {"CALL", "PUT", "NEUTRAL"}
        /\ card.bias = "CALL" =>
              Present(Seen.rsi) /\ Seen.rsi.v >= 65 /\ MacdNonNegative
        /\ card.bias = "PUT" =>
              Present(Seen.rsi) /\ Seen.rsi.v <= 35 /\ MacdNonPositive

AllAbsent == /\ ~Present(Seen.ema20) /\ ~Present(Seen.ema50)
             /\ ~Present(Seen.macd) /\ ~Present(Seen.rsi)

\* C6: in the snapshot analyze_one_ticker returns, an indicator whose window is
\* longer than the series is None; and a classifier given no indicator at all
\* returns NEUTRAL.
C6_ShortSeriesGivesNone ==
    /\ (Classified /\ card.fn = "analyze_one_ticker") =>
          /\ bias_in.n < 20 => card.ema20 = None
          /\ bias_in.n < 50 => card.ema50 = None
          /\ bias_in.n < 14 => card.rsi14 = None
          /\ bias_in.n < 26 => card.macd_diff = None
          /\ bias_in.n < 20 => card.vol_vs_avg20 = None
    /\ (Classified /\ AllAbsent) => card.bias = "NEUTRAL"

\* what scanner._bias does satisfy of C4 (not a claim; kept as a cross-check)
BiasPrimaryRuleOfScanner ==
    (Classified /\ card.fn \in {"_bias", "analyze_one_ticker"}) => C4_PrimaryRule

(***************************************************************************)
(* Properties of run_scan and safe_download                                *)
(***************************************************************************)
ScanReturned == pc = "done"

ViewTickers == IF ScanReturned
               THEN { result.view[i].Ticker : i \in DOMAIN result.view }
               ELSE {}

\* the error entries of run_scan's return value
ReportedErrors == IF ScanReturned /\ "errors" \in DOMAIN result
                  THEN result.errors
                  ELSE <<>>

ErrorTickers == { ReportedErrors[i].Ticker : i \in DOMAIN ReportedErrors }

\* the symbols for which no usable data came: none downloaded, or too few bars
NoData == { t \in Tickers : outcome[t] \in {"absent", "empty"} }

\* C1: when run_scan has returned for its N symbols of which M had no usable
\* data, the result holds exactly N - M ranked entries and M error entries, and
\* every input symbol is in one of the two.
C1_EverySymbolAccounted ==
    ScanReturned =>
        /\ Len(result.view) = Len(UNIVERSE) - Cardinality(NoData)
        /\ Len(ReportedErrors) = Cardinality(NoData)
        /\ \A t \in Tickers : t \in ViewTickers \/ t \in ErrorTickers

Processed(t) == outcome[t] \in {"raised", "empty", "illiquid", "row"}

\* C2: an exception while one symbol is processed never leaves run_scan: the
\* call does not end in a raised exception, and when it has returned, every
\* symbol of the downloaded data has been processed and there is a result.
C2_FailureDoesNotAbortBatch ==
    /\ pc # "raised"
    /\ ScanReturned => /\ \A t \in DOMAIN data : Processed(t)
                       /\ "view" \in DOMAIN result

\* C2's case: a symbol raised, a symbol after it in the loop's order gave a row,
\* and run_scan returned
C2_Witness ==
    /\ ScanReturned
    /\ \E t, u \in DOMAIN data :
          /\ TickerRank[t] < TickerRank[u]
          /\ outcome[t] = "raised"
          /\ outcome[u] = "row"
          /\ u \in ViewTickers

\* the tickers for which a provider answer holds a well-formed, non-empty series
WellFormed(raw) ==
    CASE raw.shape = "flat" ->
             IF raw.frames[1].cols /\ raw.frames[1].bars > 0 THEN {UNIVERSE[1]} ELSE {}
      [] raw.shape = "multi" ->
             { t \in DOMAIN raw.frames : raw.frames[t].cols /\ raw.frames[t].bars > 0 }
      [] OTHER -> {}

BarsOf(raw, t) == IF raw.shape = "flat" THEN raw.frames[1].bars ELSE raw.frames[t].bars

DownloadReturned == pc # "download"

\* C3: safe_download tries ("5d","5m"), ("15d","15m"), ("60d","1d") in this
\* order; every attempt before the last one made gave nothing usable; it
\* returns the data, period and interval of the first attempt that gave a
\* well-formed non-empty series; it returns Empty exactly when all three
\* attempts gave nothing usable.
C3_FirstUsableAttemptWins ==
    LET n == Len(attempts)
        order == << <<"5d", "5m">>, <<"15d", "15m">>, <<"60d", "1d">> >>
    IN  /\ n <= 3
        /\ \A i \in 1..n : <<attempts[i].period, attempts[i].interval>> = order[i]
        /\ \A i \in 1..n : i < n => WellFormed(attempts[i].raw) = {}
        /\ ~DownloadReturned => \A i \in 1..n : WellFormed(attempts[i].raw) = {}
        /\ DownloadReturned =>
              /\ n >= 1
              /\ LET w == WellFormed(attempts[n].raw)
                 IN  IF w # {}
                     THEN /\ DOMAIN data = w
                          /\ \A t \in w : data[t] = BarsOf(attempts[n].raw, t)
                          /\ used = order[n]
                     ELSE /\ n = 3
                          /\ DOMAIN data = {}
                          /\ used = <<>>

\* C3's case: the first attempt gave nothing usable, the second did, and
\* safe_download returned the second's data
C3_Witness ==
    /\ DownloadReturned
    /\ Len(attempts) = 2
    /\ WellFormed(attempts[1].raw) = {}
    /\ DOMAIN data # {}
    /\ used = <<"15d", "15m">>

(***************************************************************************)
(* Further properties of the option selectors (SpecOption)                 *)
(***************************************************************************)
\* either selector has returned
AnySelectorReturned == opt_pc \in {"picked", "row", "bot"}

\* no expiration listed, an empty chain on the side of the bias, or the provider raised
OptDegraded == \/ opt_in.exps_raises
               \/ opt_in.chain_raises
               \/ opt_in.exps = <<>>
               \/ OptTable = <<>>

\* C11: in every degraded outcome (no listed expiration, empty chain, provider
\* exception) the selector returns a pick that carries a non-empty note, not a
\* bare absent value.
C11_DegradedPickCarriesNote ==
    (AnySelectorReturned /\ OptDegraded) =>
        /\ IsNotePick(pick)
        /\ pick.note # ""

\* what bot.pick_option does satisfy of C11 (a cross-check)
DegradedNoteOfBot ==
    (opt_pc = "bot" /\ OptDegraded) => IsNotePick(pick) /\ pick.note # ""

\* C12: the contract a selector returns is a row with bid > 0, ask > 0 and
\* ask >= bid.
C12_ReturnedQuoteIsValid ==
    (AnySelectorReturned /\ IsContractPick(pick)) =>
        LET r == OptTable[pick.contract]
        IN  /\ r.bid.k = "num" /\ r.bid.v > 0
            /\ r.ask.k = "num" /\ r.ask.v > 0
            /\ r.ask.v >= r.bid.v

\* what scanner_core.pick_option_contract does satisfy of C12 (a cross-check)
ReturnedQuoteOfScannerCore ==
    OptReturned => C12_ReturnedQuoteIsValid

ListedDays == { opt_in.exps[i] : i \in DOMAIN opt_in.exps }

InTargetBand(d) == 5 <= d /\ d <= 14

\* nearest_target_expiration returned an expiration and the pick shows it
ExpirationShown == /\ OptReturned /\ ~opt_in.exps_raises /\ opt_in.exps # <<>>
                   /\ "expiration" \in DOMAIN pick

\* C13: when some listed expiration is 5 to 14 days out, the expiration chosen is
\* 5 to 14 days out; when none is and some listed expiration is today or later,
\* the one chosen is the nearest of those.
C13_ExpirationInBandElseNearest ==
    ExpirationShown =>
        /\ (\E d \in ListedDays : InTargetBand(d)) => InTargetBand(pick.expiration)
        /\ ((\A d \in ListedDays : ~InTargetBand(d)) /\ (\E d \in ListedDays : d >= 0)) =>
              /\ pick.expiration \in ListedDays
              /\ pick.expiration >= 0
              /\ \A d \in ListedDays : d >= 0 => pick.expiration <= d

\* C13's case: nothing in the band, a later expiration listed before a nearer
\* one, and the nearer one chosen
C13_Witness ==
    /\ ExpirationShown
    /\ \A d \in ListedDays : ~InTargetBand(d)
    /\ Len(opt_in.exps) = 2
    /\ opt_in.exps[1] > opt_in.exps[2]
    /\ opt_in.exps[2] >= 0
    /\ pick.expiration = opt_in.exps[2]

(***************************************************************************)
(* Properties of the earnings functions (SpecEarnings)                     *)
(***************************************************************************)
EarnDone == earn_pc = "done"

\* the earnings-dates endpoint answered, with at least one date
EndpointGave == ~earn_in.ed_raises /\ earn_in.dates # <<>>

EndpointDates == IF earn_in.ed_raises THEN {}
                 ELSE { earn_in.dates[i] : i \in DOMAIN earn_in.dates }

\* C14: a date of the earnings-dates endpoint is reported within the window if
\* and only if it is at most `days` days from today, before or after: with
\* days = 7, a date 5 days ago and a date 5 days ahead are reported and a date
\* 8 days ahead is not.
C14_WindowIsSymmetric ==
    (EarnDone /\ earn_out.fn \in {"earnings_for_ticker", "earnings_within_7d"}) =>
        LET window   == IF earn_out.fn = "earnings_for_ticker" THEN earn_in.days ELSE 7
            reported == { earn_out.hits[i] : i \in DOMAIN earn_out.hits }
        IN  \A d \in EndpointDates :
                d \in reported <=> (d <= window /\ -d <= window)

\* what bot.earnings_within_7d does satisfy of C14 (a cross-check)
WindowTestOfBot ==
    (EarnDone /\ earn_out.fn = "earnings_within_7d") => C14_WindowIsSymmetric

\* the earnings function resolved a date from the endpoint's candidates
ResolvedFromEndpoint ==
    /\ EarnDone /\ EndpointGave
    /\ \/ earn_out.fn = "_next_earnings_from_df"
       \/ earn_out.fn = "earnings_window_flag" /\ ~earn_in.etf

\* C15: from the endpoint's candidate dates the resolver picks the earliest that
\* is today or later, and when none is, the latest of the past ones.
C15_EarliestFutureElseLatestPast ==
    ResolvedFromEndpoint =>
        /\ earn_out.date # <<>>
        /\ earn_out.date[1] \in EndpointDates
        /\ IF \E d \in EndpointDates : d >= 0
           THEN /\ earn_out.date[1] >= 0
                /\ \A d \in EndpointDates : d >= 0 => earn_out.date[1] <= d
           ELSE \A d \in EndpointDates : d <= earn_out.date[1]

\* C16: the sources are consulted in the order earnings-dates endpoint, calendar;
\* the calendar is consulted only when the endpoint failed or was empty; and
\* when the endpoint gave dates, the date returned is one of them.
C16_FirstNonEmptySourceWins ==
    (EarnDone /\ earn_out.fn \in {"earnings_window_flag", "_next_earnings_within"}) =>
        /\ earn_out.consulted \in { <<>>, <<"earnings_dates">>,
                                    <<"earnings_dates", "calendar">> }
        /\ Len(earn_out.consulted) = 2 => ~EndpointGave
        /\ (EndpointGave /\ earn_out.date # <<>>) => earn_out.date[1] \in EndpointDates

\* what scanner_core.earnings_window_flag does satisfy of C16 (a cross-check)
SourceOrderOfWindowFlag ==
    (EarnDone /\ earn_out.fn = "earnings_window_flag") => C16_FirstNonEmptySourceWins

(***************************************************************************)
(* Properties of run_scan's view (Spec)                                    *)
(***************************************************************************)
\* the view is in non-increasing order of ScoreAbs and has at most top_k rows
ViewOrderedAndCapped ==
    ScanReturned =>
        /\ \A i, j \in DOMAIN result.view :
              i < j => result.view[i].ScoreAbs >= result.view[j].ScoreAbs
        /\ Len(result.view) <= top_k

\* C17: the returned list is in non-increasing order of absolute score, has at
\* most top_k entries, and holds the top_k highest-scoring of all the symbols
\* analysed: as many as top_k allows, and none left out scores above one kept.
C17_TopKByAbsoluteScore ==
    ScanReturned =>
        /\ ViewOrderedAndCapped
        /\ Len(result.view) = (IF top_k < Len(rows) THEN top_k ELSE Len(rows))
        /\ \A i \in DOMAIN rows :
              rows[i].Ticker \notin ViewTickers =>
                  \A j \in DOMAIN result.view :
                      result.view[j].ScoreAbs >= rows[i].ScoreAbs

(***************************************************************************)
(* Properties of the trade plans (SpecPlan)                                *)
(***************************************************************************)
PlanBuilt == plan_pc = "done"

\* C18: a plan built for CALL has its buy range below the last price
\* (buy_low <= buy_high < last), its target above it and its stop below it.
C18_CallPlanBelowPrice ==
    (PlanBuilt /\ plan_in.bias = "CALL") =>
        /\ plan_out.buy_low <= plan_out.buy_high
        /\ plan_out.buy_high < plan_out.last
        /\ plan_out.target > plan_out.last
        /\ plan_out.stop < plan_out.last

\* C19: a plan built for PUT has its buy range above the last price
\* (last < buy_low <= buy_high), its target below it and its stop above it.
C19_PutPlanAbovePrice ==
    (PlanBuilt /\ plan_in.bias = "PUT") =>
        /\ plan_out.last < plan_out.buy_low
        /\ plan_out.buy_low <= plan_out.buy_high
        /\ plan_out.target < plan_out.last
        /\ plan_out.stop > plan_out.last

\* what analyze_symbol's bands do satisfy of C18 and C19 (a cross-check)
FixedPctPlanSides ==
    (PlanBuilt /\ plan_out.fn = "analyze_symbol") =>
        C18_CallPlanBelowPrice /\ C19_PutPlanAbovePrice

AnalysisReturned == bias_pc = "done" /\ bias_in.src = "hist"

\* C21: a non-empty series too short for some indicator window does not fail
\* the single-symbol analysis: the analysis succeeds, with the indicators whose
\* window the series fills present, and it fails only when no bar was fetched.
C21_ShortSeriesDoesNotFail ==
    AnalysisReturned =>
        /\ card.ok <=> bias_in.n > 0
        /\ (card.ok /\ card.fn = "analyze_one_ticker") =>
              /\ bias_in.n >= EMA20_WINDOW => IsNum(card.ema20)
              /\ bias_in.n >= EMA50_WINDOW => IsNum(card.ema50)
              /\ bias_in.n >= RSI_WINDOW => IsNum(card.rsi14)
              /\ bias_in.n >= MacdBars => IsNum(card.macd_diff)

\* what scanner.analyze_one_ticker does satisfy of C21 (not a claim; kept as a
\* cross-check)
ShortSeriesOfScanner ==
    (AnalysisReturned /\ card.fn = "analyze_one_ticker") => C21_ShortSeriesDoesNotFail

(***************************************************************************)
(* Properties of the earnings cache (SpecCache, SpecCacheOne)              *)
(***************************************************************************)
\* what a reader of the cache file gets
CacheShown == _load_earnings_cache(cache_path, inodes)

CacheFileWhole == cache_path # 0 => inodes[cache_path].st = "full"

\* a step keeps every entry the file shows, or replaces it by a later one
KeepsEntries ==
    \A b \in DOMAIN CacheShown :
        /\ b \in DOMAIN CacheShown'
        /\ CacheShown'[b].ts >= CacheShown[b].ts

NoLostEntry == [][KeepsEntries]_vars

\* C22: when two calls of refresh_all_caches or earnings_universe_window
\* interleave on the same cache, no entry the file holds is lost or replaced by
\* an older one when a call saves, and the file never shows anything but one
\* complete dump.
C22_CacheSafeUnderConcurrency == []CacheFileWhole /\ NoLostEntry

\* what one call alone does satisfy of C22 (not a claim; kept as a cross-check
\* under SpecCacheOne)
CacheSafeAlone == C22_CacheSafeUnderConcurrency

\* the blocks a call has fetched so far
Refetched(p) == { proc[p].batch[k] : k \in 1..proc[p].i }

\* the blocks whose entry was missing from the cache the call loaded, or more
\* than 24 hours old when it was called
DueAtCall(p) ==
    { b \in 1..NumBlocks :
        \/ b \notin DOMAIN proc[p].loaded
        \/ T0 - proc[p].loaded[b].ts > 24 }

\* C23: earnings_universe_window refetches only symbols whose cache entry is
\* missing or older than 24 hours, at most 500 of them per call, and never a
\* symbol whose entry is fresh; the refresh of the whole universe, fresh entries
\* included, is what refresh_all_caches does.
C23_WindowRefetchesStaleUpToCap ==
    \A p \in Procs :
        /\ proc[p].kind = "earnings_universe_window" =>
              /\ Refetched(p) \subseteq DueAtCall(p)
              /\ Cardinality(Refetched(p)) * BlockSize <= 500
              /\ proc[p].pc = "done" =>
                    \/ Refetched(p) = DueAtCall(p)
                    \/ Cardinality(Refetched(p)) * BlockSize = 500
        /\ (proc[p].kind = "refresh_all_caches" /\ proc[p].pc = "done") =>
              Refetched(p) = 1..NumBlocks

\* the cap cuts the batch: more than 500 symbols were due and 500 were fetched
C23_Witness ==
    \E p \in Procs :
        /\ proc[p].kind = "earnings_universe_window"
        /\ proc[p].pc = "done"
        /\ Cardinality(DueAtCall(p)) * BlockSize > 500
        /\ Cardinality(Refetched(p)) * BlockSize = 500

(***************************************************************************)
(* Properties of _earnings_scan (SpecPool)                                 *)
(***************************************************************************)
InFlight == { i \in DOMAIN task : task[i] = "lookup" }

BoundedInFlight == Cardinality(InFlight) <= scan_in.max_concurrency

HitTickers == { i \in DOMAIN scan_in.lookups : scan_in.lookups[i].k = "hit" }

\* at the return every lookup has run to its end, and the results are the
\* tickers with a date, each once, with its date, by ascending date
ReturnsEveryHit ==
    scan_pc = "returned" =>
        /\ \A i \in DOMAIN task : task[i] = "done"
        /\ { r.sym : r \in { results[k] : k \in DOMAIN results } } = HitTickers
        /\ Len(results) = Cardinality(HitTickers)
        /\ \A k \in DOMAIN results : results[k].dt = scan_in.lookups[results[k].sym].day
        /\ \A k \in 1..(Len(results) - 1) : results[k].dt <= results[k + 1].dt

\* C24: during _earnings_scan never more than max_concurrency lookups are in
\* flight; every ticker's lookup is eventually started and completed and the
\* scan returns; a lookup that fails adds no result and the other tickers'
\* results are all returned.
C24_BoundedPoolCompletes ==
    /\ []BoundedInFlight
    /\ <>(scan_pc = "returned")
    /\ []ReturnsEveryHit

\* a scan of more tickers than max_concurrency, one of which failed and one of
\* which has a date, has returned
C24_Witness ==
    /\ scan_pc = "returned"
    /\ Len(scan_in.lookups) > scan_in.max_concurrency
    /\ \E i \in DOMAIN scan_in.lookups : scan_in.lookups[i].k = "failed"
    /\ results # <<>>

CallReturned == bias_pc = "done" /\ bias_in.src = "provider"

\* the provider outcomes on which no analysis is possible
CallCannotAnalyze ==
    \/ bias_in.dl # "frame"
    \/ bias_in.found = "no"
    \/ bias_in.n < 60
    \/ bias_in.ind_raises

LiquidityTier(sp, oi) ==
    IF sp <= 50 /\ oi >= 1000 THEN "Low"
    ELSE IF sp <= 100 /\ oi >= 300 THEN "Medium"
    ELSE "High"

\* C26: the risk tier of a returned row is derived from the selected option's
\* liquidity: Low when spread% <= 5 and open interest >= 1000, Medium when
\* spread% <= 10 and open interest >= 300, High otherwise.
C26_RiskFromOptionLiquidity ==
    ScanReturned =>
        \A i \in DOMAIN result.view :
            result.view[i].ok_contract =>
                result.view[i].Risk =
                    LiquidityTier(result.view[i].SpreadPct.v, result.view[i].OptOI.v)

\* what run_scan's Risk column does hold (not a claim; kept as a cross-check):
\* never Low, and High exactly on ATR% >= 4, a strong news score or the earnings
\* window, none of which is seen in the row's option columns
RiskNeverLow ==
    \A i \in DOMAIN rows : rows[i].Risk \in {"High", "Medium"}

(***************************************************************************)
(* Properties of UniverseManager (SpecUniverse)                            *)
(***************************************************************************)
\* the list the documented priority chooses
ByPriority ==
    IF univ_in.file = "symbols" THEN FileSymbols
    ELSE IF univ_in.all_tickers = "symbols" THEN AllTickers
    ELSE IF univ_in.scan_universe = "symbols" THEN ScanUniverse
    ELSE DEFAULT_UNIVERSE_FALLBACK

\* C27: UniverseManager.initialize always completes and leaves a non-empty
\* symbol list chosen by the priority: the symbols file if present, else
\* ALL_TICKERS, else SCAN_UNIVERSE, else DEFAULT_UNIVERSE_FALLBACK; a missing
\* symbols file falls through to the environment or the default, it does not
\* fail.  (An ALL_TICKERS of separators only is left open: it names no list.)
C27_InitializeFollowsPriority ==
    /\ univ_pc # "raised"
    /\ univ_pc \in {"initialized", "got"} =>
          /\ symbols # <<>>
          /\ univ_in.all_tickers # "blank" => symbols = ByPriority

\* what initialize does satisfy of C27 (not a claim; kept as a cross-check):
\* C27 holds whenever the symbols file can be read or the generator cannot be
\* imported
InitializeWithoutGenerator ==
    (univ_in.file \in {"symbols", "empty"} \/ univ_in.import = "fails") =>
        C27_InitializeFollowsPriority

(***************************************************************************)
(* Further properties of safe_download (SpecDownload)                      *)
(***************************************************************************)
\* the tickers of the universe with no usable bars in a provider answer
Missing(raw) == Tickers \ WellFormed(raw)

\* C28: in a multi-symbol safe_download the fallback advances only when an
\* attempt is empty for every symbol; a symbol with no usable bars at the first
\* attempt that succeeds for some other symbol is not retried at a later
\* timeframe: it is absent from the result, and every symbol of the result
\* comes from that one attempt and its (period, interval).
C28_NoPerSymbolFallback ==
    LET n == Len(attempts)
    IN  /\ \A i \in 1..n : WellFormed(attempts[i].raw) # {} => i = n /\ DownloadReturned
        /\ (DownloadReturned /\ DOMAIN data # {}) =>
              /\ \A t \in Missing(attempts[n].raw) : t \notin DOMAIN data
              /\ \A t \in DOMAIN data :
                    /\ t \in WellFormed(attempts[n].raw)
                    /\ data[t] = BarsOf(attempts[n].raw, t)
              /\ used = <<Periods[n].period, Periods[n].interval>>

\* an attempt before the last timeframe succeeded for one symbol and not for
\* another, and safe_download returned without the other
C28_Witness ==
    /\ DownloadReturned
    /\ Len(attempts) < LastAttempt
    /\ DOMAIN data # {}
    /\ \E t \in Missing(attempts[Len(attempts)].raw) :
          /\ attempts[Len(attempts)].raw.shape = "multi"
          /\ t \in DOMAIN attempts[Len(attempts)].raw.frames
          /\ t \notin DOMAIN data

HasContract(r) == r.ok_contract

\* C29: rows with and without a selected contract are never mixed in the
\* result: if some analysed symbol has a contract, every returned row has one
\* (a higher-scoring symbol without a contract is left out), and rows without a
\* contract are returned only when no analysed symbol has one.
C29_ContractRowsNeverMixed ==
    ScanReturned =>
        /\ \A i \in DOMAIN result.view : \E j \in DOMAIN rows : rows[j] = result.view[i]
        /\ (\E j \in DOMAIN rows : HasContract(rows[j])) =>
              \A i \in DOMAIN result.view : HasContract(result.view[i])
        /\ (\E i \in DOMAIN result.view : ~HasContract(result.view[i])) =>
              \A j \in DOMAIN rows : ~HasContract(rows[j])
        /\ rows # <<>> => result.view # <<>>

\* a symbol without a contract scores above one with a contract, top_k has room
\* for both, and only the one with the contract is returned
C29_Witness ==
    /\ ScanReturned
    /\ top_k >= 2
    /\ Len(result.view) = 1
    /\ HasContract(result.view[1])
    /\ \E j \in DOMAIN rows :
          /\ ~HasContract(rows[j])
          /\ rows[j].ScoreAbs > result.view[1].ScoreAbs

(***************************************************************************)
(* C30: whenever the provider lists at least one expiration dated today or *)
(* later, the expiration chosen for the option pick, by pick_option, by    *)
(* nearest_target_expiration and by _nearest_expiry, is never a date       *)
(* before today.                                                           *)
(***************************************************************************)
FutureListed == /\ ~opt_in.exps_raises
                /\ \E d \in ListedDays : IsFuture(d)

ChosenExpirations ==
    (IF "expiration" \in DOMAIN pick THEN {pick.expiration} ELSE {})
    \cup (IF "expiry" \in DOMAIN pick THEN {pick.expiry} ELSE {})

C30_ChosenExpirationNotPast ==
    (opt_pc \in {"picked", "bot", "atm"} /\ FutureListed)
        => \A d \in ChosenExpirations : IsFuture(d)

\* the same statement of nearest_target_expiration alone, which filters the
\* listed dates by to_date(e) >= today before choosing
ExpirationNotPastOfScannerCore ==
    (opt_pc = "picked" /\ FutureListed)
        => \A d \in ChosenExpirations : IsFuture(d)

\* the same statement of bot.pick_option alone
ExpirationNotPastOfBot ==
    (opt_pc = "bot" /\ FutureListed)
        => \A d \in ChosenExpirations : IsFuture(d)

\* the same statement of scanner._nearest_expiry alone
ExpirationNotPastOfScanner ==
    (opt_pc = "atm" /\ FutureListed)
        => \A d \in ChosenExpirations : IsFuture(d)

====
